---- MODULE Spec2Model ----
(***************************************************************************)
(* Model of list-ssh-hosts (src/main.go): the SSH-config text functions    *)
(* (parseSSHConfig, deleteHostFromConfig, contains) and the bubbletea      *)
(* session state machine (model.Update, tryLogin, main).                   *)
(*                                                                         *)
(* Text is modelled at character level: a string is a sequence of          *)
(* one-character strings, a file is one such sequence with "\n" line       *)
(* separators, so trimming, lower-casing, prefix tests, field splitting    *)
(* and the split/join round trip are computed as the Go code computes      *)
(* them.                                                                   *)
(***************************************************************************)
EXTENDS Integers, Sequences, FiniteSets, TLC

\* ------------------------------------------------------------------ bounds
\* Largest number of lines of an initial configuration file.
MaxLines == 3

\* Largest number of characters typed into the password input.
MaxPw == 1

\* Largest number of pieces of a file of the info runs.
MaxBlocks == 3

\* ------------------------------------------------------- strings (Go strings)
NL == "\n"
TAB == "\t"
SP == " "

\* unicode.IsSpace restricted to the characters that occur in the model
IsSpace(c) == c \in {SP, TAB, NL, "\r"}

UpperToLower ==
  [A |-> "a", B |-> "b", C |-> "c", D |-> "d", E |-> "e", F |-> "f", G |-> "g",
   H |-> "h", I |-> "i", J |-> "j", K |-> "k", L |-> "l", M |-> "m", N |-> "n",
   O |-> "o", P |-> "p", Q |-> "q", R |-> "r", S |-> "s", T |-> "t", U |-> "u",
   V |-> "v", W |-> "w", X |-> "x", Y |-> "y", Z |-> "z"]

\* strings.ToLower
ToLower(s) ==
  [i \in 1..Len(s) |-> IF s[i] \in DOMAIN UpperToLower THEN UpperToLower[s[i]] ELSE s[i]]

\* strings.TrimSpace
TrimSpace(s) ==
  LET ns == {i \in 1..Len(s) : ~IsSpace(s[i])}
  IN IF ns = {} THEN <<>>
     ELSE SubSeq(s, CHOOSE i \in ns : \A j \in ns : i <= j,
                    CHOOSE i \in ns : \A j \in ns : i >= j)

\* strings.HasPrefix
HasPrefix(s, p) == Len(s) >= Len(p) /\ SubSeq(s, 1, Len(p)) = p

\* strings.ContainsAny
ContainsAny(s, chars) == \E i \in 1..Len(s) : s[i] \in chars

\* strings.Fields: the maximal runs of non-space characters, in order
RECURSIVE FieldsFrom(_, _, _)
FieldsFrom(s, i, cur) ==
  IF i > Len(s) THEN (IF cur = <<>> THEN <<>> ELSE <<cur>>)
  ELSE IF IsSpace(s[i])
       THEN (IF cur = <<>> THEN <<>> ELSE <<cur>>) \o FieldsFrom(s, i + 1, <<>>)
       ELSE FieldsFrom(s, i + 1, Append(cur, s[i]))

Fields(s) == FieldsFrom(s, 1, <<>>)

\* strings.Split(s, "\n"): the pieces between the newlines, always at least
\* one piece
Split(s) ==
  LET nls == {i \in 1..Len(s) : s[i] = NL}
      n == Cardinality(nls)
      at(k) == IF k = 0 THEN 0
               ELSE IF k = n + 1 THEN Len(s) + 1
               ELSE CHOOSE i \in nls : Cardinality({j \in nls : j < i}) = k - 1
  IN [k \in 1..(n + 1) |-> SubSeq(s, at(k - 1) + 1, at(k) - 1)]

\* mutant of Join: every line is written with a terminating "\n"
RECURSIVE JoinTerminated(_)
JoinTerminated(ls) ==
  IF ls = <<>> THEN <<>> ELSE ls[1] \o <<NL>> \o JoinTerminated(Tail(ls))

\* strings.Join(lines, "\n"); the join of no lines is the empty string
RECURSIVE Join(_)
Join(ls) ==
  IF ls = <<>> THEN <<>>
  ELSE IF Len(ls) = 1 THEN ls[1]
       ELSE ls[1] \o <<NL>> \o Join(Tail(ls))

\* bufio.Scanner with ScanLines: pieces between "\n", a trailing "\r" of a
\* piece dropped, and no final empty piece at end of input
DropCR(l) == IF Len(l) > 0 /\ l[Len(l)] = "\r" THEN SubSeq(l, 1, Len(l) - 1) ELSE l

ScanLines(s) ==
  LET ps == Split(s)
      qs == IF ps[Len(ps)] = <<>> THEN SubSeq(ps, 1, Len(ps) - 1) ELSE ps
  IN [i \in 1..Len(qs) |-> DropCR(qs[i])]

\* literals of the source
kwHost == <<"h", "o", "s", "t", " ">>
kwHostname == <<"h", "o", "s", "t", "n", "a", "m", "e", " ">>
kwUser == <<"u", "s", "e", "r", " ">>
\* mutant of WildcardChars: "*" is missing
WildcardCharsNoStar == {"?", "[", "]", "!"}

WildcardChars == {"*", "?", "[", "]", "!"}

\* ------------------------------------------------------------ parseSSHConfig
hostItem(h, d) == [host |-> h, desc |-> d]

\* mutant of descOf: a user without a hostname is shown too
descOfUserFirst(currentHostname, currentUser) ==
  IF currentUser # <<>> THEN currentUser \o <<"@">> \o currentHostname
  ELSE currentHostname

\* the description of one emitted item
descOf(currentHostname, currentUser) ==
  IF currentHostname # <<>> /\ currentUser # <<>>
  THEN currentUser \o <<"@">> \o currentHostname
  ELSE IF currentHostname # <<>> THEN currentHostname ELSE <<>>

\* mutant of addGroup: a wildcard pattern hides the whole Host line
addGroupSkipLine(items, currentHosts, currentHostname, currentUser) ==
  IF \E k \in 1..Len(currentHosts) : ContainsAny(currentHosts[k], {"*", "?", "[", "]", "!"})
  THEN items
  ELSE items \o [i \in 1..Len(currentHosts) |->
                   [host |-> currentHosts[i],
                    desc |-> IF currentHostname # <<>> /\ currentUser # <<>>
                             THEN currentUser \o <<"@">> \o currentHostname
                             ELSE currentHostname]]

\* the loop that adds a host group to items, wildcards skipped
addGroup(items, currentHosts, currentHostname, currentUser) ==
  LET shown == SelectSeq(currentHosts, LAMBDA h : ~ContainsAny(h, WildcardChars))
  IN items \o [i \in 1..Len(shown) |->
                 hostItem(shown[i], descOf(currentHostname, currentUser))]

\* the value of a "hostname "/"user " directive line
directiveValue(old, line, kw) ==
  IF HasPrefix(ToLower(line), kw) /\ Len(Fields(line)) > 1
  THEN Fields(line)[2] ELSE old

\* mutant of parseLine: a Host line does not reset the hostname and the user
parseLineNoReset(st, raw) ==
  LET line == TrimSpace(raw)
  IN IF HasPrefix(ToLower(line), kwHost)
     THEN [items |-> IF Len(st.currentHosts) > 0
                     THEN addGroup(st.items, st.currentHosts,
                                   st.currentHostname, st.currentUser)
                     ELSE st.items,
           currentHosts |-> Tail(Fields(line)),
           currentHostname |-> st.currentHostname,
           currentUser |-> st.currentUser]
     ELSE IF Len(st.currentHosts) > 0
          THEN [st EXCEPT !.currentHostname = directiveValue(@, line, kwHostname),
                          !.currentUser = directiveValue(@, line, kwUser)]
          ELSE st

\* one iteration of the scanner loop
parseLine(st, raw) ==
  LET line == TrimSpace(raw)
  IN IF HasPrefix(ToLower(line), kwHost)
     THEN [items |-> IF Len(st.currentHosts) > 0
                     THEN addGroup(st.items, st.currentHosts,
                                   st.currentHostname, st.currentUser)
                     ELSE st.items,
           currentHosts |-> Tail(Fields(line)),
           currentHostname |-> <<>>,
           currentUser |-> <<>>]
     ELSE IF Len(st.currentHosts) > 0
          THEN [st EXCEPT !.currentHostname = directiveValue(@, line, kwHostname),
                          !.currentUser = directiveValue(@, line, kwUser)]
          ELSE st

RECURSIVE parseLoop(_, _, _)
parseLoop(lines, i, st) ==
  IF i > Len(lines) THEN st ELSE parseLoop(lines, i + 1, parseLine(st, lines[i]))

\* parseSSHConfig(path) for a file that can be opened, as the item list
parseText(text) ==
  LET st == parseLoop(ScanLines(text), 1,
                      [items |-> <<>>, currentHosts |-> <<>>,
                       currentHostname |-> <<>>, currentUser |-> <<>>])
  IN IF Len(st.currentHosts) > 0
     THEN addGroup(st.items, st.currentHosts, st.currentHostname, st.currentUser)
     ELSE st.items

\* parseSSHConfig: (items, err); os.Open fails on a file that cannot be read
parseSSHConfig(canRead, text) ==
  IF ~canRead THEN [items |-> <<>>, err |-> TRUE]
  ELSE [items |-> parseText(text), err |-> FALSE]

\* ------------------------------------------------------ deleteHostFromConfig
\* mutant of contains: only the first element is compared
containsFirst(slice, item) == Len(slice) > 0 /\ slice[1] = item

\* mutant of contains: the comparison folds case
containsFold(slice, item) ==
  \E i \in 1..Len(slice) : ToLower(slice[i]) = ToLower(item)

\* contains(slice, item)
contains(slice, item) == \E i \in 1..Len(slice) : slice[i] = item

\* mutant of notIndented: a tab does not count as indentation
notIndentedSpaceOnly(line) == Len(line) > 0 /\ line[1] # " "

\* "this line is not indented"
notIndented(line) ==
  Len(line) > 0 /\ ~HasPrefix(line, <<SP>>) /\ ~HasPrefix(line, <<TAB>>)

\* mutant of deleteLine: inside a skipped block the indentation test comes
\* before the Host test, so that an unindented Host line only ends the block
deleteLineSkipFirst(st, line, hostToDelete) ==
  IF st.skipBlock
  THEN IF Len(line) > 0 /\ line[1] \notin {" ", "\t"}
       THEN [newLines |-> Append(st.newLines, line),
             inHostBlock |-> FALSE, skipBlock |-> FALSE]
       ELSE st
  ELSE IF HasPrefix(ToLower(TrimSpace(line)), kwHost)
          /\ \E i \in 2..Len(Fields(line)) : Fields(line)[i] = hostToDelete
       THEN [st EXCEPT !.skipBlock = TRUE]
       ELSE [newLines |-> Append(st.newLines, line),
             inHostBlock |-> st.inHostBlock, skipBlock |-> FALSE]

\* mutant of deleteLine: blank lines outside the removed blocks are dropped
deleteLineDropBlank(st, line, hostToDelete) ==
  IF HasPrefix(ToLower(TrimSpace(line)), kwHost)
  THEN IF \E i \in 2..Len(Fields(line)) : Fields(line)[i] = hostToDelete
       THEN [st EXCEPT !.skipBlock = TRUE]
       ELSE [newLines |-> Append(st.newLines, line),
             inHostBlock |-> TRUE, skipBlock |-> FALSE]
  ELSE IF st.skipBlock
       THEN IF Len(line) > 0 /\ line[1] \notin {" ", "\t"}
            THEN [newLines |-> Append(st.newLines, line),
                  inHostBlock |-> FALSE, skipBlock |-> FALSE]
            ELSE st
       ELSE IF TrimSpace(line) = <<>> THEN st
            ELSE [st EXCEPT !.newLines = Append(@, line)]

\* mutant of deleteLine: the line that ends a skipped block is dropped
\* with the block
deleteLineDropsTerminator(st, line, hostToDelete) ==
  LET trimmedLine == TrimSpace(line)
  IN IF HasPrefix(ToLower(trimmedLine), kwHost)
     THEN IF contains(Tail(Fields(trimmedLine)), hostToDelete)
          THEN [st EXCEPT !.skipBlock = TRUE]
          ELSE [newLines |-> Append(st.newLines, line),
                inHostBlock |-> TRUE, skipBlock |-> FALSE]
     ELSE IF st.skipBlock
          THEN IF notIndented(line)
               THEN [st EXCEPT !.inHostBlock = FALSE, !.skipBlock = FALSE]
               ELSE st
          ELSE [newLines |-> Append(st.newLines, line),
                inHostBlock |-> IF st.inHostBlock /\ notIndented(line)
                                THEN FALSE ELSE st.inHostBlock,
                skipBlock |-> st.skipBlock]

\* one iteration of the loop over the lines
deleteLine(st, line, hostToDelete) ==
  LET trimmedLine == TrimSpace(line)
  IN IF HasPrefix(ToLower(trimmedLine), kwHost)
     THEN IF contains(Tail(Fields(trimmedLine)), hostToDelete)
          THEN [st EXCEPT !.skipBlock = TRUE]
          ELSE [newLines |-> Append(st.newLines, line),
                inHostBlock |-> TRUE, skipBlock |-> FALSE]
     ELSE IF st.skipBlock
          THEN IF notIndented(line)
               THEN [newLines |-> Append(st.newLines, line),
                     inHostBlock |-> FALSE, skipBlock |-> FALSE]
               ELSE st
          ELSE [newLines |-> Append(st.newLines, line),
                inHostBlock |-> IF st.inHostBlock /\ notIndented(line)
                                THEN FALSE ELSE st.inHostBlock,
                skipBlock |-> st.skipBlock]

RECURSIVE deleteLoop(_, _, _, _)
deleteLoop(lines, i, st, hostToDelete) ==
  IF i > Len(lines) THEN st
  ELSE deleteLoop(lines, i + 1, deleteLine(st, lines[i], hostToDelete), hostToDelete)

\* the rewritten line sequence (newLines) for the lines of the file
deleteBlock(lines, hostToDelete) ==
  deleteLoop(lines, 1,
             [newLines |-> <<>>, inHostBlock |-> FALSE, skipBlock |-> FALSE],
             hostToDelete).newLines

\* the new file content: split, rewrite, join
deleteText(text, hostToDelete) == Join(deleteBlock(Split(text), hostToDelete))

\* --------------------------------------------------------------- getHostInfo
kwProxyJump == <<"p", "r", "o", "x", "y", "j", "u", "m", "p", " ">>
litHost == <<"H", "o", "s", "t", " ">>
\* strings.Repeat("\u2500", 20): the box-drawing rule, written "-" (the
\* strings of the module are ASCII)
litRule == [i \in 1..20 |-> "-"]

\* getProxyJumpHost(lines): the value of the first "proxyjump " line, or ""
RECURSIVE proxyJumpFrom(_, _)
proxyJumpFrom(lines, i) ==
  IF i > Len(lines) THEN <<>>
  ELSE LET trimmedLine == TrimSpace(lines[i])
       IN IF HasPrefix(ToLower(trimmedLine), kwProxyJump) /\ Len(Fields(trimmedLine)) > 1
          THEN Fields(trimmedLine)[2]
          ELSE proxyJumpFrom(lines, i + 1)

getProxyJumpHost(lines) == proxyJumpFrom(lines, 1)

\* mutant of hostBlockLine: a blank line ends the block
hostBlockLineStopsAtBlank(st, line, hostName) ==
  LET trimmedLine == TrimSpace(line)
  IN IF HasPrefix(ToLower(trimmedLine), kwHost)
     THEN IF contains(Tail(Fields(trimmedLine)), hostName)
          THEN [st EXCEPT !.inHostBlock = TRUE,
                          !.foundHostName = hostName,
                          !.hostLines = Append(@, line)]
          ELSE [st EXCEPT !.inHostBlock = FALSE]
     ELSE IF st.inHostBlock
          THEN IF notIndented(line) \/ trimmedLine = <<>>
               THEN [st EXCEPT !.inHostBlock = FALSE, !.done = TRUE]
               ELSE [st EXCEPT !.hostLines = Append(@, line)]
          ELSE st

\* getHostBlock(lines, hostName): one iteration of the loop; done is the break
hostBlockLine(st, line, hostName) ==
  LET trimmedLine == TrimSpace(line)
  IN IF HasPrefix(ToLower(trimmedLine), kwHost)
     THEN IF contains(Tail(Fields(trimmedLine)), hostName)
          THEN [st EXCEPT !.inHostBlock = TRUE,
                          !.foundHostName = hostName,
                          !.hostLines = Append(@, line)]
          ELSE [st EXCEPT !.inHostBlock = FALSE]
     ELSE IF st.inHostBlock
          THEN IF notIndented(line)
               THEN [st EXCEPT !.inHostBlock = FALSE, !.done = TRUE]
               ELSE [st EXCEPT !.hostLines = Append(@, line)]
          ELSE st

RECURSIVE hostBlockLoop(_, _, _, _)
hostBlockLoop(lines, i, st, hostName) ==
  IF i > Len(lines) \/ st.done THEN st
  ELSE hostBlockLoop(lines, i + 1, hostBlockLine(st, lines[i], hostName), hostName)

\* getHostBlock: <<>> for nil, else <<block>>
getHostBlock(lines, hostName) ==
  LET st == hostBlockLoop(lines, 1,
                          [hostLines |-> <<>>, inHostBlock |-> FALSE,
                           foundHostName |-> <<>>, done |-> FALSE], hostName)
  IN IF Len(st.hostLines) = 0 THEN <<>>
     ELSE <<[hostName |-> st.foundHostName, lines |-> st.hostLines]>>

\* getAllHostBlocks(lines): one iteration; currentBlock is <<>> for nil
allBlocksLine(st, line) ==
  LET trimmedLine == TrimSpace(line)
  IN IF HasPrefix(ToLower(trimmedLine), kwHost)
     THEN LET currentHosts == Tail(Fields(trimmedLine))
              saved == st.blocks \o st.currentBlock
          IN IF Len(currentHosts) > 0
             THEN [blocks |-> saved,
                   currentBlock |-> <<[hostName |-> currentHosts[1], lines |-> <<line>>]>>,
                   inHostBlock |-> TRUE]
             ELSE [st EXCEPT !.blocks = saved]
     ELSE IF st.inHostBlock /\ st.currentBlock # <<>>
          THEN IF notIndented(line)
               THEN [blocks |-> st.blocks \o st.currentBlock,
                     currentBlock |-> <<>>, inHostBlock |-> FALSE]
               ELSE [st EXCEPT !.currentBlock[1].lines = Append(@, line)]
          ELSE st

RECURSIVE allBlocksLoop(_, _, _)
allBlocksLoop(lines, i, st) ==
  IF i > Len(lines) THEN st
  ELSE allBlocksLoop(lines, i + 1, allBlocksLine(st, lines[i]))

getAllHostBlocks(lines) ==
  LET st == allBlocksLoop(lines, 1,
                          [blocks |-> <<>>, currentBlock |-> <<>>, inHostBlock |-> FALSE])
  IN st.blocks \o st.currentBlock

\* the lines of a block that the info box shows, each followed by "\n"
RECURSIVE renderLines(_, _)
renderLines(lines, i) ==
  IF i > Len(lines) THEN <<>>
  ELSE (IF TrimSpace(lines[i]) # <<>> /\ ~HasPrefix(TrimSpace(lines[i]), litHost)
        THEN lines[i] \o <<NL>> ELSE <<>>) \o renderLines(lines, i + 1)

\* the "Jumped by:" entries
RECURSIVE renderJumping(_, _)
renderJumping(blocks, i) ==
  IF i > Len(blocks) THEN <<>>
  ELSE <<"H", "o", "s", "t", ":", " ">> \o blocks[i].hostName \o <<NL>>
       \o renderLines(blocks[i].lines, 1) \o <<NL>> \o renderJumping(blocks, i + 1)

\* mutant of jumpHostInfo: the jump host of the jump host, where there is one
jumpHostInfoTwoHops(lines, selectedHostInfo) ==
  LET jumpHost == getProxyJumpHost(selectedHostInfo[1].lines)
      first == IF jumpHost # <<>> THEN getHostBlock(lines, jumpHost) ELSE <<>>
      second == IF first # <<>> /\ getProxyJumpHost(first[1].lines) # <<>>
                THEN getHostBlock(lines, getProxyJumpHost(first[1].lines))
                ELSE <<>>
  IN IF second # <<>> THEN second ELSE first

\* getHostInfo: the block of the jump host of the selected block, <<>> for nil
jumpHostInfo(lines, selectedHostInfo) ==
  LET jumpHost == getProxyJumpHost(selectedHostInfo[1].lines)
  IN IF jumpHost # <<>> THEN getHostBlock(lines, jumpHost) ELSE <<>>

\* mutant of jumpingHosts: only the first block that jumps through hostName
jumpingHostsFirstOnly(lines, hostName) ==
  LET all == SelectSeq(getAllHostBlocks(lines),
                       LAMBDA b : getProxyJumpHost(b.lines) = hostName)
  IN IF all = <<>> THEN <<>> ELSE <<all[1]>>

\* getHostInfo: the blocks that jump through hostName
jumpingHosts(lines, hostName) ==
  SelectSeq(getAllHostBlocks(lines), LAMBDA b : getProxyJumpHost(b.lines) = hostName)

\* getHostInfo(hostName); user.Current() has succeeded in main and its result
\* is cached by the runtime, so only the read of the file can fail here
getHostInfo(readOK, text, hostName) ==
  IF ~readOK THEN <<"E", "r", "r", "o", "r", ":", " ", "C", "o", "u", "l", "d", " ", "n", "o", "t", " ", "r", "e", "a", "d", " ", "S", "S", "H", " ", "c", "o", "n", "f", "i", "g">>
  ELSE
  LET lines == Split(text)
      selectedHostInfo == getHostBlock(lines, hostName)
  IN IF selectedHostInfo = <<>>
     THEN <<"H", "o", "s", "t", ":", " ">> \o hostName \o <<NL, NL>> \o <<"N", "o", " ", "c", "o", "n", "f", "i", "g", " ", "f", "o", "u", "n", "d">>
     ELSE
     LET jump == jumpHostInfo(lines, selectedHostInfo)
         jumping == jumpingHosts(lines, hostName)
     IN (IF jump # <<>>
         THEN <<"J", "u", "m", "p", " ", "H", "o", "s", "t", ":", " ">> \o jump[1].hostName \o <<NL>>
              \o litRule \o <<NL>> \o renderLines(jump[1].lines, 1) \o <<NL>>
         ELSE <<>>)
        \o <<"H", "o", "s", "t", ":", " ">> \o hostName \o <<NL>> \o litRule \o <<NL>>
        \o renderLines(selectedHostInfo[1].lines, 1)
        \o (IF Len(jumping) > 0
            THEN <<NL>> \o <<"J", "u", "m", "p", "e", "d", " ", "b", "y", ":">> \o <<NL>> \o litRule \o <<NL>>
                 \o renderJumping(jumping, 1)
            ELSE <<>>)

\* ------------------------------------------------------------------- state
VARIABLES
  content,      \* text of ~/.ssh/config
  canRead,      \* whether the file can be opened and read
  hasSshpass,   \* whether exec.LookPath finds sshpass
  userOK,       \* whether user.Current() succeeds
  hosts,        \* the items returned by the last direct call of parseSSHConfig
  parsed,       \* "no": no such call since the file last changed; else the
                \* outcome of that call, "ok" or "err"
  items,        \* the items of m.list
  lastDelete,   \* at most one record: the last call of deleteHostFromConfig
  pc,           \* "main", "tui" (tea.Program.Run), "post" (Run returned), "exit"
  exitCode,     \* status of os.Exit, -1 while running
  index,        \* m.list.Index()
  screen,       \* m.screen
  selectedHost, \* m.selectedHost
  selectedDesc, \* m.selectedDesc
  password,     \* m.password
  pwInput,      \* m.pwInput.Value()
  errMsg,       \* m.errMsg
  loggingIn,    \* m.loggingIn
  shouldSSH,    \* m.shouldSSH
  infoBox,      \* m.infoBox
  probes,       \* tryLogin commands that are running
  inbox,        \* loginResultMsg sent to the program and not yet handled
  launched,     \* the interactive ssh sessions that main has run
  lastProbe,    \* history: at most one record, the arguments of the last
                \* tryLogin command that Update returned
  lastInfo      \* at most one record: the last direct call of getHostInfo,
                \* with the blocks it found and the text it returned

cfgVars == <<content, canRead, hasSshpass, userOK, hosts, parsed, lastDelete, lastInfo>>
uiVars == <<items, pc, exitCode, index, screen, selectedHost, selectedDesc, password,
            pwInput, errMsg, loggingIn, shouldSSH, infoBox, probes, inbox,
            launched, lastProbe>>
vars == <<content, canRead, hasSshpass, userOK, lastInfo, hosts, parsed, items, lastDelete, pc, exitCode, index,
          screen, selectedHost, selectedDesc, password, pwInput, errMsg,
          loggingIn, shouldSSH, infoBox, probes, inbox, launched, lastProbe>>

\* ----------------------------------------------------------- input domains
HostA == <<"H", "o", "s", "t", " ", "a">>
HostAB == <<"H", "o", "s", "t", " ", "a", " ", "b">>
HostBWild == <<"H", "O", "S", "T", " ", "b", " ", "a", "?">>
HostStar == <<"H", "o", "s", "t", " ", "*">>
HostnameX == <<" ", " ", "H", "o", "s", "t", "n", "a", "m", "e", " ", "x">>
HostnameY == <<"H", "o", "s", "t", "N", "a", "m", "e", " ", "y">>
UserU == <<TAB, "U", "s", "e", "r", " ", "u">>
Blank == <<>>
Comment == <<"#", " ", "a">>
HostB == <<"H", "o", "s", "t", " ", "b">>
HostC == <<"H", "o", "s", "t", " ", "c">>
ProxyJumpA == <<" ", " ", "P", "r", "o", "x", "y", "J", "u", "m", "p", " ", "a">>
ProxyJumpB == <<" ", " ", "P", "r", "o", "x", "y", "J", "u", "m", "p", " ", "b">>

LinePool ==
  {HostA, HostAB, HostBWild, HostStar, HostnameX, HostnameY, UserU, Blank, Comment}

BoundedSeq(S, n) == UNION {[1..k -> S] : k \in 0..n}

\* the configuration files: every text of at most MaxLines lines of the pool
Files == {Join(ls) : ls \in BoundedSeq(LinePool, MaxLines)}

\* the names a deletion is asked for; "z" is listed by no line
Targets == {<<"a">>, <<"b">>, <<"z">>}

\* the configuration files of the interactive runs
SessionFiles ==
  {Join(<<HostA, HostnameX, UserU, Blank, HostB, ProxyJumpA, HostC, ProxyJumpB>>),
   Join(<<HostAB, HostnameY, HostStar, HostnameX, Blank>>),
   Join(<<HostStar, HostnameX>>),
   <<>>}

\* the keys of tea.KeyMsg, by msg.String(); Runes are the printable keys,
\* PwRunes those that the user types as the password: a character that
\* occurs in no file and in no text of the program
Runes == {"x", "q"}
PwRunes == {"q"}
Keys == {"ctrl+c", "enter", "esc", "delete", "up", "down", "backspace"} \cup Runes

\* the state of the model before main has run
NotStarted ==
  /\ pc = "main" /\ exitCode = -1
  /\ items = <<>>
  /\ index = 0 /\ screen = "listScreen"
  /\ selectedHost = <<>> /\ selectedDesc = <<>>
  /\ password = <<>> /\ pwInput = <<>> /\ errMsg = <<>>
  /\ loggingIn = FALSE /\ shouldSSH = FALSE
  /\ infoBox = <<>>
  /\ probes = <<>> /\ inbox = <<>> /\ launched = <<>> /\ lastProbe = <<>>

\* ------------------------------------------------- the functions as called
\* deleteHostFromConfig(hostToDelete): the error and the file content after
\* the call; os.ReadFile fails on an unreadable file, writeOK is whether
\* os.WriteFile succeeds
deleteHostFromConfig(readOK, writeOK, text, hostToDelete) ==
  IF ~readOK THEN [err |-> TRUE, content |-> text]
  ELSE IF ~writeOK THEN [err |-> TRUE, content |-> text]
  ELSE [err |-> FALSE, content |-> deleteText(text, hostToDelete)]

\* parseSSHConfig(path) called on the file
ParseConfig ==
  /\ parsed = "no"
  /\ LET r == parseSSHConfig(canRead, content)
     IN /\ hosts' = r.items
        /\ parsed' = IF r.err THEN "err" ELSE "ok"
  /\ UNCHANGED <<content, canRead, hasSshpass, userOK, lastInfo, lastDelete>>
  /\ UNCHANGED uiVars

\* deleteHostFromConfig(hostToDelete) called on the file. A run is a test
\* of the functions: the file is written, deleteHostFromConfig is or is not
\* called on it, and parseSSHConfig reads the result. One call per run loses
\* nothing: the text it writes is again a text of Files, so that a second
\* call is the first call of another run.
DeleteHost(hostToDelete) ==
  /\ lastDelete = <<>>
  /\ parsed = "no"
  /\ LET r == deleteHostFromConfig(canRead, TRUE, content, hostToDelete)
     IN /\ content' = r.content
        /\ lastDelete' = <<[input |-> content, host |-> hostToDelete, err |-> r.err]>>
        /\ parsed' = "no"
  /\ UNCHANGED <<canRead, hasSshpass, userOK, lastInfo, hosts>>
  /\ UNCHANGED uiVars

InitConfig ==
  /\ canRead \in BOOLEAN
  /\ content \in (IF canRead THEN Files ELSE {<<>>})
  /\ hasSshpass = TRUE /\ userOK = TRUE
  /\ lastInfo = <<>>
  /\ hosts = <<>>
  /\ parsed = "no"
  /\ lastDelete = <<>>
  /\ NotStarted

NextConfig ==
  \/ ParseConfig
  \/ \E n \in Targets : DeleteHost(n)

SpecConfig == InitConfig /\ [][NextConfig]_vars

\* ------------------------------------------- the info functions as called
ProxyJumpC == <<" ", " ", "P", "r", "o", "x", "y", "J", "u", "m", "p", " ", "c">>
IndentedHostC == <<" ", " ", "H", "o", "s", "t", " ", "c">>

\* the pieces the files of the info runs are made of: blocks with ProxyJump
\* lines (a jumps through b, b through c, c through b), a block of two
\* aliases, a directive at top level, a Host line that is indented, a Host
\* line with the keyword in upper case and a pattern, a wildcard block
InfoBlockPool ==
  {<<HostA, ProxyJumpB>>,
   <<HostB, ProxyJumpC, Blank>>,
   <<HostC, HostnameX, ProxyJumpB>>,
   <<HostAB, UserU>>,
   <<HostnameY>>,
   <<IndentedHostC, ProxyJumpA>>,
   <<HostBWild>>,
   <<HostStar, UserU>>}

RECURSIVE Flatten(_)
Flatten(bs) == IF bs = <<>> THEN <<>> ELSE Head(bs) \o Flatten(Tail(bs))

\* the files of the info runs: at most MaxBlocks pieces of the pool
InfoFiles == {Join(Flatten(bs)) : bs \in BoundedSeq(InfoBlockPool, MaxBlocks)}

\* the names asked for; "A" is listed by no line
InfoNames == {<<"a">>, <<"b">>, <<"c">>, <<"A">>}

\* getHostInfo(hostName) called on the file: the record keeps the values of
\* selectedHostInfo, jumpHostInfo and jumpingHosts and the text returned;
\* found is FALSE when the function returned before it computed them
HostInfo(hostName) ==
  /\ lastInfo = <<>> /\ lastDelete = <<>>
  /\ LET lines == Split(content)
         selectedHostInfo == IF canRead THEN getHostBlock(lines, hostName) ELSE <<>>
         found == selectedHostInfo # <<>>
     IN lastInfo' = <<[hostName |-> hostName,
                       found |-> found,
                       block |-> selectedHostInfo,
                       jump |-> IF found THEN jumpHostInfo(lines, selectedHostInfo)
                                ELSE <<>>,
                       jumping |-> IF found THEN jumpingHosts(lines, hostName)
                                   ELSE <<>>,
                       text |-> getHostInfo(canRead, content, hostName)]>>
  /\ UNCHANGED <<content, canRead, hasSshpass, userOK, hosts, parsed, lastDelete>>
  /\ UNCHANGED uiVars

\* deleteHostFromConfig called for the host that getHostInfo was called for
DeleteShown ==
  /\ lastInfo # <<>>
  /\ DeleteHost(lastInfo[1].hostName)

InitInfo ==
  /\ canRead \in BOOLEAN
  /\ content \in (IF canRead THEN InfoFiles ELSE {<<>>})
  /\ hasSshpass = TRUE /\ userOK = TRUE
  /\ lastInfo = <<>>
  /\ hosts = <<>>
  /\ parsed = "no"
  /\ lastDelete = <<>>
  /\ NotStarted

NextInfo ==
  \/ \E n \in InfoNames : HostInfo(n)
  \/ DeleteShown

SpecInfo == InitInfo /\ [][NextInfo]_vars

\* ------------------------------------------- getHostInfo after a deletion
\* the blocks of the files of these runs: three hosts that jump through one
\* another, and a Host line that lists two of them
RequeryBlockPool ==
  {<<HostA, ProxyJumpB>>, <<HostB, ProxyJumpC, Blank>>,
   <<HostC, HostnameX, ProxyJumpB>>, <<HostAB, UserU>>}

RequeryFiles == {Join(Flatten(bs)) : bs \in BoundedSeq(RequeryBlockPool, MaxBlocks)}
RequeryNames == {<<"a">>, <<"b">>, <<"c">>}

\* deleteHostFromConfig(hostToDelete), as the delete key calls it
DeleteFirst(hostToDelete) ==
  /\ lastInfo = <<>>
  /\ DeleteHost(hostToDelete)

\* mutant of HostInfoAfterDelete: the answer is computed from the file as it
\* was read before the deletion
HostInfoAfterDeleteCached(hostName) ==
  /\ lastInfo = <<>> /\ lastDelete # <<>>
  /\ LET lines == Split(lastDelete[1].input)
         selectedHostInfo == IF canRead THEN getHostBlock(lines, hostName) ELSE <<>>
         found == selectedHostInfo # <<>>
     IN lastInfo' = <<[hostName |-> hostName,
                       found |-> found,
                       block |-> selectedHostInfo,
                       jump |-> IF found THEN jumpHostInfo(lines, selectedHostInfo)
                                ELSE <<>>,
                       jumping |-> IF found THEN jumpingHosts(lines, hostName)
                                   ELSE <<>>,
                       text |-> getHostInfo(canRead, lastDelete[1].input, hostName)]>>
  /\ UNCHANGED <<content, canRead, hasSshpass, userOK, hosts, parsed, lastDelete>>
  /\ UNCHANGED uiVars

\* getHostInfo(hostName) called after the deletion: it reads the file again
HostInfoAfterDelete(hostName) ==
  /\ lastInfo = <<>> /\ lastDelete # <<>>
  /\ LET lines == Split(content)
         selectedHostInfo == IF canRead THEN getHostBlock(lines, hostName) ELSE <<>>
         found == selectedHostInfo # <<>>
     IN lastInfo' = <<[hostName |-> hostName,
                       found |-> found,
                       block |-> selectedHostInfo,
                       jump |-> IF found THEN jumpHostInfo(lines, selectedHostInfo)
                                ELSE <<>>,
                       jumping |-> IF found THEN jumpingHosts(lines, hostName)
                                   ELSE <<>>,
                       text |-> getHostInfo(canRead, content, hostName)]>>
  /\ UNCHANGED <<content, canRead, hasSshpass, userOK, hosts, parsed, lastDelete>>
  /\ UNCHANGED uiVars

InitRequery ==
  /\ canRead \in BOOLEAN
  /\ content \in (IF canRead THEN RequeryFiles ELSE {<<>>})
  /\ hasSshpass = TRUE /\ userOK = TRUE
  /\ lastInfo = <<>>
  /\ hosts = <<>>
  /\ parsed = "no"
  /\ lastDelete = <<>>
  /\ NotStarted

NextRequery ==
  \/ \E n \in RequeryNames : DeleteFirst(n)
  \/ \E n \in RequeryNames : HostInfoAfterDelete(n)

SpecRequery == InitRequery /\ [][NextRequery]_vars

\* ------------------------------------------------------------ main, startup
litHelloWorld == <<"h", "e", "l", "l", "o", " ", "w", "o", "r", "l", "d">>
litLoginFailed == <<"L", "o", "g", "i", "n", " ", "f", "a", "i", "l", "e", "d", ":", " ", "w", "r", "o", "n", "g", " ", "p", "a", "s", "s", "w", "o", "r", "d", " ", "o", "r", " ", "S", "S", "H", " ", "e", "r", "r", "o", "r", ".">>

Exit(code) ==
  /\ pc' = "exit" /\ exitCode' = code
  /\ UNCHANGED <<items, index, screen, infoBox>>

\* mutant of Main: the configuration is read first, and an empty one ends
\* the program with status 0 before the other checks
MainConfigFirst ==
  /\ pc = "main"
  /\ LET r == parseSSHConfig(canRead, content)
     IN IF ~r.err /\ Len(r.items) = 0 THEN Exit(0)
        ELSE IF ~hasSshpass THEN Exit(1)
        ELSE IF ~userOK THEN Exit(1)
        ELSE IF r.err THEN Exit(1)
        ELSE /\ pc' = "tui"
             /\ items' = r.items
             /\ index' = 0
             /\ screen' = "listScreen"
             /\ infoBox' = litHelloWorld
             /\ UNCHANGED exitCode
  /\ UNCHANGED <<content, canRead, hasSshpass, userOK, lastInfo, hosts, parsed, lastDelete, selectedHost,
                 selectedDesc, password, pwInput, errMsg, loggingIn, shouldSSH,
                 probes, inbox, launched, lastProbe>>

\* main up to the start of the program: checkSshpass, user.Current,
\* parseSSHConfig, the empty list, initialModel
Main ==
  /\ pc = "main"
  /\ IF ~hasSshpass THEN Exit(1)
     ELSE IF ~userOK THEN Exit(1)
     ELSE LET r == parseSSHConfig(canRead, content)
          IN IF r.err THEN Exit(1)
             ELSE IF Len(r.items) = 0 THEN Exit(0)
             ELSE /\ pc' = "tui"
                  /\ items' = r.items
                  /\ index' = 0
                  /\ screen' = "listScreen"
                  /\ infoBox' = litHelloWorld
                  /\ UNCHANGED exitCode
  /\ UNCHANGED <<content, canRead, hasSshpass, userOK, lastInfo, hosts, parsed, lastDelete, selectedHost,
                 selectedDesc, password, pwInput, errMsg, loggingIn, shouldSSH,
                 probes, inbox, launched, lastProbe>>

\* mutant of PostTUI: main does not test m.shouldSSH
PostTUIIgnoresFlag ==
  /\ pc = "post"
  /\ launched' = IF selectedHost # <<>> /\ password # <<>>
                 THEN Append(launched, [host |-> selectedHost, password |-> password])
                 ELSE launched
  /\ pc' = "exit"
  /\ exitCode' = 0
  /\ UNCHANGED <<content, canRead, hasSshpass, userOK, lastInfo, hosts, parsed, items, lastDelete, index,
                 screen, selectedHost, selectedDesc, password, pwInput, errMsg,
                 loggingIn, shouldSSH, infoBox, probes, inbox, lastProbe>>

\* main after Run has returned: the interactive ssh session
PostTUI ==
  /\ pc = "post"
  /\ launched' = IF shouldSSH /\ selectedHost # <<>> /\ password # <<>>
                 THEN Append(launched, [host |-> selectedHost, password |-> password])
                 ELSE launched
  /\ pc' = "exit"
  /\ exitCode' = 0
  /\ UNCHANGED <<content, canRead, hasSshpass, userOK, lastInfo, hosts, parsed, items, lastDelete, index,
                 screen, selectedHost, selectedDesc, password, pwInput, errMsg,
                 loggingIn, shouldSSH, infoBox, probes, inbox, lastProbe>>

\* -------------------------------------------------------------- model.Update
KeyMsg(k) == [type |-> "KeyMsg", key |-> k]
WindowSizeMsg == [type |-> "WindowSizeMsg"]
loginResultMsg(ok, err) == [type |-> "loginResultMsg", success |-> ok, err |-> err]

\* the values of err that cmd.Run() returns in tryLogin: nil, an
\* *exec.ExitError (ssh or sshpass ended with a non-zero status), or the
\* error of a command that could not be started
RunErrors == {"nil", "exit status", "not started"}

\* the command returned by tryLogin(host, password)
tryLogin(host, pw) == [host |-> host, password |-> pw]

\* m.list.SelectedItem().(hostItem): ok is SelectedOK
SelectedOK == index < Len(items)
Selected == items[index + 1]

\* the index after m.list.Update(msg) with the default key map of the list:
\* "up" and "down" move the cursor inside the list
listIndexAfter(msg) ==
  IF msg.type = "KeyMsg" /\ msg.key = "up"
  THEN (IF index > 0 THEN index - 1 ELSE 0)
  ELSE IF msg.type = "KeyMsg" /\ msg.key = "down"
       THEN (IF index + 1 < Len(items) THEN index + 1
             ELSE IF Len(items) > 0 THEN Len(items) - 1 ELSE 0)
       ELSE index

\* whether m.list.Update(msg) returns tea.Quit: the list quits on "q" and "esc"
listQuits(msg) == msg.type = "KeyMsg" /\ msg.key \in {"q", "esc"}

\* the value of the text input after m.pwInput.Update(msg)
pwInputAfter(msg) ==
  IF msg.type = "KeyMsg" /\ msg.key \in Runes THEN Append(pwInput, msg.key)
  ELSE IF msg.type = "KeyMsg" /\ msg.key = "backspace" /\ Len(pwInput) > 0
       THEN SubSeq(pwInput, 1, Len(pwInput) - 1)
       ELSE pwInput

\* mutant of UpdateList: enter keeps the text of the password input
UpdateListKeepsInput(msg, writeOK) ==
  /\ screen = "listScreen"
  /\ IF msg.type = "KeyMsg" /\ msg.key = "ctrl+c"
     THEN /\ pc' = "post"
          /\ UNCHANGED <<content, items, lastDelete, index, screen,
                         selectedHost, selectedDesc, pwInput, errMsg, infoBox>>
     ELSE IF msg.type = "KeyMsg" /\ msg.key = "enter" /\ SelectedOK
     THEN /\ selectedHost' = Selected.host
          /\ selectedDesc' = Selected.desc
          /\ pwInput' = pwInput
          /\ errMsg' = <<>>
          /\ screen' = "passwordScreen"
          /\ UNCHANGED <<content, items, lastDelete, index, infoBox, pc>>
     ELSE IF msg.type = "KeyMsg" /\ msg.key \in {"delete", "x"} /\ SelectedOK
     THEN LET d == deleteHostFromConfig(canRead, writeOK, content, Selected.host)
              r == parseSSHConfig(canRead, d.content)
          IN /\ content' = d.content
             /\ lastDelete' = <<[input |-> content, host |-> Selected.host,
                                 err |-> d.err]>>
             /\ items' = IF ~d.err /\ ~r.err THEN r.items ELSE items
             /\ UNCHANGED <<index, screen, selectedHost, selectedDesc, pwInput,
                            errMsg, infoBox, pc>>
     ELSE /\ index' = listIndexAfter(msg)
          /\ infoBox' = IF index' < Len(items)
                        THEN getHostInfo(canRead, content, items[index' + 1].host)
                        ELSE infoBox
          /\ pc' = IF listQuits(msg) THEN "post" ELSE pc
          /\ UNCHANGED <<content, items, lastDelete, screen, selectedHost,
                         selectedDesc, pwInput, errMsg>>
  /\ UNCHANGED <<password, loggingIn, shouldSSH, probes, lastProbe>>

\* mutant of UpdateList: a deletion does not reload the list
UpdateListNoReload(msg, writeOK) ==
  /\ screen = "listScreen"
  /\ IF msg.type = "KeyMsg" /\ msg.key = "ctrl+c"
     THEN /\ pc' = "post"
          /\ UNCHANGED <<content, items, lastDelete, index, screen,
                         selectedHost, selectedDesc, pwInput, errMsg, infoBox>>
     ELSE IF msg.type = "KeyMsg" /\ msg.key = "enter" /\ SelectedOK
     THEN /\ selectedHost' = Selected.host
          /\ selectedDesc' = Selected.desc
          /\ pwInput' = <<>>
          /\ errMsg' = <<>>
          /\ screen' = "passwordScreen"
          /\ UNCHANGED <<content, items, lastDelete, index, infoBox, pc>>
     ELSE IF msg.type = "KeyMsg" /\ msg.key \in {"delete", "x"} /\ SelectedOK
     THEN LET d == deleteHostFromConfig(canRead, writeOK, content, Selected.host)
              r == parseSSHConfig(canRead, d.content)
          IN /\ content' = d.content
             /\ lastDelete' = <<[input |-> content, host |-> Selected.host,
                                 err |-> d.err]>>
             /\ items' = items
             /\ UNCHANGED <<index, screen, selectedHost, selectedDesc, pwInput,
                            errMsg, infoBox, pc>>
     ELSE /\ index' = listIndexAfter(msg)
          /\ infoBox' = IF index' < Len(items)
                        THEN getHostInfo(canRead, content, items[index' + 1].host)
                        ELSE infoBox
          /\ pc' = IF listQuits(msg) THEN "post" ELSE pc
          /\ UNCHANGED <<content, items, lastDelete, screen, selectedHost,
                         selectedDesc, pwInput, errMsg>>
  /\ UNCHANGED <<password, loggingIn, shouldSSH, probes, lastProbe>>

\* mutant of UpdateList: enter shows the password screen and does not take
\* the host of the selected item
UpdateListEnterKeepsHost(msg, writeOK) ==
  /\ screen = "listScreen"
  /\ IF msg.type = "KeyMsg" /\ msg.key = "ctrl+c"
     THEN /\ pc' = "post"
          /\ UNCHANGED <<content, items, lastDelete, index, screen,
                         selectedHost, selectedDesc, pwInput, errMsg, infoBox>>
     ELSE IF msg.type = "KeyMsg" /\ msg.key = "enter" /\ SelectedOK
     THEN /\ selectedDesc' = Selected.desc
          /\ pwInput' = <<>>
          /\ errMsg' = <<>>
          /\ screen' = "passwordScreen"
          /\ UNCHANGED <<content, items, lastDelete, index, infoBox, pc, selectedHost>>
     ELSE IF msg.type = "KeyMsg" /\ msg.key \in {"delete", "x"} /\ SelectedOK
     THEN LET d == deleteHostFromConfig(canRead, writeOK, content, Selected.host)
              r == parseSSHConfig(canRead, d.content)
          IN /\ content' = d.content
             /\ lastDelete' = <<[input |-> content, host |-> Selected.host,
                                 err |-> d.err]>>
             /\ items' = IF ~d.err /\ ~r.err THEN r.items ELSE items
             /\ UNCHANGED <<index, screen, selectedHost, selectedDesc, pwInput,
                            errMsg, infoBox, pc>>
     ELSE /\ index' = listIndexAfter(msg)
          /\ infoBox' = IF index' < Len(items)
                        THEN getHostInfo(canRead, content, items[index' + 1].host)
                        ELSE infoBox
          /\ pc' = IF listQuits(msg) THEN "post" ELSE pc
          /\ UNCHANGED <<content, items, lastDelete, screen, selectedHost,
                         selectedDesc, pwInput, errMsg>>
  /\ UNCHANGED <<password, loggingIn, shouldSSH, probes, lastProbe>>

\* case listScreen
UpdateList(msg, writeOK) ==
  /\ screen = "listScreen"
  /\ IF msg.type = "KeyMsg" /\ msg.key = "ctrl+c"
     THEN /\ pc' = "post"
          /\ UNCHANGED <<content, items, lastDelete, index, screen,
                         selectedHost, selectedDesc, pwInput, errMsg, infoBox>>
     ELSE IF msg.type = "KeyMsg" /\ msg.key = "enter" /\ SelectedOK
     THEN /\ selectedHost' = Selected.host
          /\ selectedDesc' = Selected.desc
          /\ pwInput' = <<>>
          /\ errMsg' = <<>>
          /\ screen' = "passwordScreen"
          /\ UNCHANGED <<content, items, lastDelete, index, infoBox, pc>>
     ELSE IF msg.type = "KeyMsg" /\ msg.key \in {"delete", "x"} /\ SelectedOK
     THEN LET d == deleteHostFromConfig(canRead, writeOK, content, Selected.host)
              r == parseSSHConfig(canRead, d.content)
          IN /\ content' = d.content
             /\ lastDelete' = <<[input |-> content, host |-> Selected.host,
                                 err |-> d.err]>>
             /\ items' = IF ~d.err /\ ~r.err THEN r.items ELSE items
             /\ UNCHANGED <<index, screen, selectedHost, selectedDesc, pwInput,
                            errMsg, infoBox, pc>>
     ELSE /\ index' = listIndexAfter(msg)
          /\ infoBox' = IF index' < Len(items)
                        THEN getHostInfo(canRead, content, items[index' + 1].host)
                        ELSE infoBox
          /\ pc' = IF listQuits(msg) THEN "post" ELSE pc
          /\ UNCHANGED <<content, items, lastDelete, screen, selectedHost,
                         selectedDesc, pwInput, errMsg>>
  /\ UNCHANGED <<password, loggingIn, shouldSSH, probes, lastProbe>>

\* mutant of UpdatePassword: enter starts the probe and stays on the
\* password screen
UpdatePasswordStaysOnSubmit(msg) ==
  /\ screen = "passwordScreen"
  /\ IF msg.type = "KeyMsg" /\ msg.key = "esc"
     THEN /\ screen' = "listScreen"
          /\ errMsg' = <<>>
          /\ UNCHANGED <<password, pwInput, loggingIn, probes, lastProbe>>
     ELSE IF msg.type = "KeyMsg" /\ msg.key = "enter"
     THEN /\ password' = pwInput
          /\ errMsg' = <<>>
          /\ loggingIn' = TRUE
          /\ probes' = Append(probes, tryLogin(selectedHost, password'))
          /\ lastProbe' = <<tryLogin(selectedHost, password')>>
          /\ UNCHANGED <<pwInput, screen>>
     ELSE /\ pwInput' = pwInputAfter(msg)
          /\ UNCHANGED <<password, errMsg, screen, loggingIn, probes, lastProbe>>
  /\ UNCHANGED <<content, items, lastDelete, index, selectedHost,
                 selectedDesc, shouldSSH, infoBox, pc>>

\* mutant of UpdatePassword: esc keeps the error message
UpdatePasswordEscKeepsError(msg) ==
  /\ screen = "passwordScreen"
  /\ IF msg.type = "KeyMsg" /\ msg.key = "esc"
     THEN /\ screen' = "listScreen"
          /\ errMsg' = errMsg
          /\ UNCHANGED <<password, pwInput, loggingIn, probes, lastProbe>>
     ELSE IF msg.type = "KeyMsg" /\ msg.key = "enter"
     THEN /\ password' = pwInput
          /\ errMsg' = <<>>
          /\ screen' = "spinnerScreen"
          /\ loggingIn' = TRUE
          /\ probes' = Append(probes, tryLogin(selectedHost, password'))
          /\ lastProbe' = <<tryLogin(selectedHost, password')>>
          /\ UNCHANGED pwInput
     ELSE /\ pwInput' = pwInputAfter(msg)
          /\ UNCHANGED <<password, errMsg, screen, loggingIn, probes, lastProbe>>
  /\ UNCHANGED <<content, items, lastDelete, index, selectedHost,
                 selectedDesc, shouldSSH, infoBox, pc>>

\* mutant of UpdatePassword: enter keeps the error message
UpdatePasswordSubmitKeepsError(msg) ==
  /\ screen = "passwordScreen"
  /\ IF msg.type = "KeyMsg" /\ msg.key = "esc"
     THEN /\ screen' = "listScreen"
          /\ errMsg' = <<>>
          /\ UNCHANGED <<password, pwInput, loggingIn, probes, lastProbe>>
     ELSE IF msg.type = "KeyMsg" /\ msg.key = "enter"
     THEN /\ password' = pwInput
          /\ errMsg' = errMsg
          /\ screen' = "spinnerScreen"
          /\ loggingIn' = TRUE
          /\ probes' = Append(probes, tryLogin(selectedHost, password'))
          /\ lastProbe' = <<tryLogin(selectedHost, password')>>
          /\ UNCHANGED pwInput
     ELSE /\ pwInput' = pwInputAfter(msg)
          /\ UNCHANGED <<password, errMsg, screen, loggingIn, probes, lastProbe>>
  /\ UNCHANGED <<content, items, lastDelete, index, selectedHost,
                 selectedDesc, shouldSSH, infoBox, pc>>

\* case passwordScreen
UpdatePassword(msg) ==
  /\ screen = "passwordScreen"
  /\ IF msg.type = "KeyMsg" /\ msg.key = "esc"
     THEN /\ screen' = "listScreen"
          /\ errMsg' = <<>>
          /\ UNCHANGED <<password, pwInput, loggingIn, probes, lastProbe>>
     ELSE IF msg.type = "KeyMsg" /\ msg.key = "enter"
     THEN /\ password' = pwInput
          /\ errMsg' = <<>>
          /\ screen' = "spinnerScreen"
          /\ loggingIn' = TRUE
          /\ probes' = Append(probes, tryLogin(selectedHost, password'))
          /\ lastProbe' = <<tryLogin(selectedHost, password')>>
          /\ UNCHANGED pwInput
     ELSE /\ pwInput' = pwInputAfter(msg)
          /\ UNCHANGED <<password, errMsg, screen, loggingIn, probes, lastProbe>>
  /\ UNCHANGED <<content, items, lastDelete, index, selectedHost,
                 selectedDesc, shouldSSH, infoBox, pc>>

\* mutant of UpdateSpinner: a successful login sets the flag and does not
\* quit the program
UpdateSpinnerNoQuit(msg) ==
  /\ screen = "spinnerScreen"
  /\ IF msg.type = "loginResultMsg"
     THEN /\ loggingIn' = FALSE
          /\ IF msg.success
             THEN /\ shouldSSH' = TRUE
                  /\ UNCHANGED <<pc, screen, errMsg, pwInput>>
             ELSE /\ screen' = "passwordScreen"
                  /\ errMsg' = <<"L">>
                  /\ pwInput' = <<>>
                  /\ UNCHANGED <<shouldSSH, pc>>
     ELSE UNCHANGED <<loggingIn, shouldSSH, pc, screen, errMsg, pwInput>>
  /\ UNCHANGED <<content, items, lastDelete, index, selectedHost,
                 selectedDesc, password, infoBox, probes, lastProbe>>

\* mutant of UpdateSpinner: a failed login keeps the text of the input
UpdateSpinnerKeepsInput(msg) ==
  /\ screen = "spinnerScreen"
  /\ IF msg.type = "loginResultMsg"
     THEN /\ loggingIn' = FALSE
          /\ IF msg.success
             THEN /\ shouldSSH' = TRUE
                  /\ pc' = "post"
                  /\ UNCHANGED <<screen, errMsg, pwInput>>
             ELSE /\ screen' = "passwordScreen"
                  /\ errMsg' = litLoginFailed
                  /\ pwInput' = pwInput
                  /\ UNCHANGED <<shouldSSH, pc>>
     ELSE UNCHANGED <<loggingIn, shouldSSH, pc, screen, errMsg, pwInput>>
  /\ UNCHANGED <<content, items, lastDelete, index, selectedHost,
                 selectedDesc, password, infoBox, probes, lastProbe>>

\* mutant of UpdateSpinner: esc on the spinner screen goes back to the
\* password screen
UpdateSpinnerEscCancels(msg) ==
  /\ screen = "spinnerScreen"
  /\ IF msg.type = "loginResultMsg"
     THEN /\ loggingIn' = FALSE
          /\ IF msg.success
             THEN /\ shouldSSH' = TRUE
                  /\ pc' = "post"
                  /\ UNCHANGED <<screen, errMsg, pwInput>>
             ELSE /\ screen' = "passwordScreen"
                  /\ errMsg' = litLoginFailed
                  /\ pwInput' = <<>>
                  /\ UNCHANGED <<shouldSSH, pc>>
     ELSE IF msg.type = "KeyMsg" /\ msg.key = "esc"
     THEN /\ screen' = "passwordScreen"
          /\ UNCHANGED <<loggingIn, shouldSSH, pc, errMsg, pwInput>>
     ELSE UNCHANGED <<loggingIn, shouldSSH, pc, screen, errMsg, pwInput>>
  /\ UNCHANGED <<content, items, lastDelete, index, selectedHost,
                 selectedDesc, password, infoBox, probes, lastProbe>>

\* mutant of UpdateSpinner: a failed result is dropped and the spinner stays
UpdateSpinnerDropsFailure(msg) ==
  /\ screen = "spinnerScreen"
  /\ IF msg.type = "loginResultMsg"
     THEN /\ loggingIn' = FALSE
          /\ IF msg.success
             THEN /\ shouldSSH' = TRUE
                  /\ pc' = "post"
                  /\ UNCHANGED <<screen, errMsg, pwInput>>
             ELSE UNCHANGED <<screen, errMsg, pwInput, shouldSSH, pc>>
     ELSE UNCHANGED <<loggingIn, shouldSSH, pc, screen, errMsg, pwInput>>
  /\ UNCHANGED <<content, items, lastDelete, index, selectedHost,
                 selectedDesc, password, infoBox, probes, lastProbe>>

\* mutant of UpdateSpinner: a failed login removes the host from the file
UpdateSpinnerFailureRemovesHost(msg) ==
  /\ screen = "spinnerScreen"
  /\ IF msg.type = "loginResultMsg"
     THEN /\ loggingIn' = FALSE
          /\ IF msg.success
             THEN /\ shouldSSH' = TRUE
                  /\ pc' = "post"
                  /\ UNCHANGED <<screen, errMsg, pwInput, content>>
             ELSE /\ screen' = "passwordScreen"
                  /\ errMsg' = litLoginFailed
                  /\ pwInput' = <<>>
                  /\ content' = deleteText(content, selectedHost)
                  /\ UNCHANGED <<shouldSSH, pc>>
     ELSE UNCHANGED <<loggingIn, shouldSSH, pc, screen, errMsg, pwInput, content>>
  /\ UNCHANGED <<items, lastDelete, index, selectedHost,
                 selectedDesc, password, infoBox, probes, lastProbe>>

\* case spinnerScreen
UpdateSpinner(msg) ==
  /\ screen = "spinnerScreen"
  /\ IF msg.type = "loginResultMsg"
     THEN /\ loggingIn' = FALSE
          /\ IF msg.success
             THEN /\ shouldSSH' = TRUE
                  /\ pc' = "post"
                  /\ UNCHANGED <<screen, errMsg, pwInput>>
             ELSE /\ screen' = "passwordScreen"
                  /\ errMsg' = litLoginFailed
                  /\ pwInput' = <<>>
                  /\ UNCHANGED <<shouldSSH, pc>>
     ELSE UNCHANGED <<loggingIn, shouldSSH, pc, screen, errMsg, pwInput>>
  /\ UNCHANGED <<content, items, lastDelete, index, selectedHost,
                 selectedDesc, password, infoBox, probes, lastProbe>>

\* Update(msg): the switch on m.screen
Update(msg, writeOK) ==
  \/ UpdateList(msg, writeOK)
  \/ UpdatePassword(msg)
  \/ UpdateSpinner(msg)

\* ------------------------------------------------------------- model.View
litEnterPassword == <<"e", "n", "t", "e", "r", " ", "p", "a", "s", "s", "w", "o", "r", "d", ":">>
litLoggingIn == <<" ", "L", "o", "g", "g", "i", "n", "g", " ", "i", "n", ".", ".", ".">>

\* the titles and descriptions that m.list.View() draws
RECURSIVE listView(_, _)
listView(its, i) ==
  IF i > Len(its) THEN <<>>
  ELSE its[i].host \o <<NL>> \o its[i].desc \o <<NL>> \o listView(its, i + 1)

\* m.pwInput.View() in EchoPassword mode: one echo character per character
\* of the value (the bullet of main.go:105, written "*")
pwInputView == [i \in 1..Len(pwInput) |-> "*"]

\* mutant of View: the input is drawn in the clear
ViewEchoNormal ==
  IF screen = "listScreen" THEN listView(items, 1) \o infoBox
  ELSE IF screen = "passwordScreen"
  THEN selectedHost \o <<NL>>
       \o (IF errMsg # <<>> THEN errMsg \o <<NL, NL>> ELSE <<>>)
       \o litEnterPassword \o <<NL>> \o pwInput \o <<NL, NL>>
  ELSE litLoggingIn

\* View(): the text written to the terminal, without the fixed help bars,
\* the styles and the frame of the spinner
View ==
  IF screen = "listScreen" THEN listView(items, 1) \o infoBox
  ELSE IF screen = "passwordScreen"
  THEN selectedHost \o <<NL>>
       \o (IF errMsg # <<>> THEN errMsg \o <<NL, NL>> ELSE <<>>)
       \o litEnterPassword \o <<NL>> \o pwInputView \o <<NL, NL>>
  ELSE litLoggingIn

\* ----------------------------------------------------- the program's events
\* a key is pressed and the program handles it
KeyPress ==
  /\ pc = "tui"
  /\ \E k \in Keys, writeOK \in BOOLEAN :
       /\ (screen = "passwordScreen" /\ k \in Runes) =>
            (k \in PwRunes /\ Len(pwInput) < MaxPw)
       /\ Update(KeyMsg(k), writeOK)
  /\ UNCHANGED <<canRead, hasSshpass, userOK, lastInfo, hosts, parsed, exitCode, inbox, launched>>

\* the terminal is resized
Resize ==
  /\ pc = "tui"
  /\ Update(WindowSizeMsg, TRUE)
  /\ UNCHANGED <<canRead, hasSshpass, userOK, lastInfo, hosts, parsed, exitCode, inbox, launched>>

\* a running tryLogin command finishes: cmd.Run() returns, err == nil or not
ProbeDone ==
  /\ pc = "tui"
  /\ probes # <<>>
  /\ \E err \in RunErrors : inbox' = Append(inbox, loginResultMsg(err = "nil", err))
  /\ probes' = Tail(probes)
  /\ UNCHANGED <<content, canRead, hasSshpass, userOK, lastInfo, hosts, parsed, items, lastDelete, pc, exitCode,
                 index, screen, selectedHost, selectedDesc, password, pwInput,
                 errMsg, loggingIn, shouldSSH, infoBox, launched, lastProbe>>

\* the program handles the next loginResultMsg
LoginResult ==
  /\ pc = "tui"
  /\ inbox # <<>>
  /\ Update(Head(inbox), TRUE)
  /\ inbox' = Tail(inbox)
  /\ UNCHANGED <<canRead, hasSshpass, userOK, lastInfo, hosts, parsed, exitCode, launched>>

Init ==
  /\ canRead \in BOOLEAN
  /\ content \in (IF canRead THEN SessionFiles ELSE {<<>>})
  /\ hasSshpass \in BOOLEAN /\ userOK \in BOOLEAN
  /\ lastInfo = <<>>
  /\ hosts = <<>>
  /\ parsed = "no"
  /\ lastDelete = <<>>
  /\ NotStarted

Next ==
  \/ Main
  \/ KeyPress
  \/ Resize
  \/ ProbeDone
  \/ LoginResult
  \/ PostTUI

Spec == Init /\ [][Next]_vars

\* the session with the scheduling of the bubbletea event loop: a message
\* that a command has returned is read from the message channel and handled
\* (nothing is assumed about when, or whether, the ssh of tryLogin returns)
SpecLive == Init /\ [][Next]_vars /\ WF_vars(LoginResult)

\* ======================================================= claims: ConfigModel
\* Vocabulary of the claims, stated over the lines of a text.
Range(f) == {f[i] : i \in DOMAIN f}

\* a Host line, and the aliases it lists
IsHostLine(line) == HasPrefix(ToLower(TrimSpace(line)), kwHost)
Aliases(line) == Tail(Fields(TrimSpace(line)))
Lists(line, n) == IsHostLine(line) /\ n \in Range(Aliases(line))
IsWildcard(h) == \E i \in 1..Len(h) : h[i] \in {"*", "?", "[", "]", "!"}

\* the alias occurrences of the Host lines of ls, wildcard patterns left
\* out: [line index, alias] in file order and alias order
RECURSIVE OccFrom(_, _)
OccFrom(ls, i) ==
  IF i > Len(ls) THEN <<>>
  ELSE (IF IsHostLine(ls[i])
        THEN LET as == SelectSeq(Aliases(ls[i]), LAMBDA h : ~IsWildcard(h))
             IN [k \in 1..Len(as) |-> [line |-> i, alias |-> as[k]]]
        ELSE <<>>) \o OccFrom(ls, i + 1)

Occurrences(ls) == OccFrom(ls, 1)
NamesOf(its) == [k \in 1..Len(its) |-> its[k].host]
AliasSeq(occ) == [k \in 1..Len(occ) |-> occ[k].alias]

\* the last deleteHostFromConfig call returned without error
Deleted == lastDelete # <<>> /\ ~lastDelete[1].err
InLines == Split(lastDelete[1].input)

\* the lines of ls that list n
HitLinesOf(ls, n) == {i \in 1..Len(ls) : Lists(ls[i], n)}
HitLines == HitLinesOf(InLines, lastDelete[1].host)

\* C1 (as stated): after deleting one alias of a multi-alias Host line,
\* re-parsing the rewritten file yields none of the aliases of the Host
\* lines that list the target, and every alias of the other Host lines is
\* still an entry.
C1_AsStated ==
  Deleted =>
    LET ls == InLines
        n == lastDelete[1].host
        hit == HitLinesOf(ls, n)
        out == Range(NamesOf(parseText(content)))
    IN (\E i \in hit : Len(Aliases(ls[i])) > 1) =>
         /\ \A i \in hit : Range(Aliases(ls[i])) \cap out = {}
         /\ \A i \in (1..Len(ls)) \ hit :
              IsHostLine(ls[i]) =>
                {h \in Range(Aliases(ls[i])) : ~IsWildcard(h)} \subseteq out

\* C1 (amended): after deleting one alias of a multi-alias Host line, the
\* names obtained by re-parsing the rewritten file are exactly the aliases
\* of the Host lines that do not list the target, occurrence by occurrence
\* and in order: the whole block is gone, and an alias of the removed block
\* is still an entry only where another Host line lists it.
C1_BlockGranular ==
  Deleted =>
    LET ls == InLines
        n == lastDelete[1].host
        hit == HitLinesOf(ls, n)
    IN (\E i \in hit : Len(Aliases(ls[i])) > 1) =>
         NamesOf(parseText(content))
           = AliasSeq(Occurrences(SelectSeq(ls, LAMBDA l : ~Lists(l, n))))

\* witness of C1: a multi-alias block was deleted by one of its aliases,
\* the other alias is gone with it, and another block's entry remains
C1_Witness ==
  /\ Deleted
  /\ LET out == Range(NamesOf(parseText(content)))
     IN /\ \E i \in HitLines :
             \E h \in Range(Aliases(InLines[i])) :
               h # lastDelete[1].host /\ h \notin out
        /\ out # {}

\* C2: after a deletion has succeeded and the file has been parsed again,
\* no parsed entry is named as the deleted alias, wherever the Host lines
\* that list it stand and however many there are.
C2_DeletedAliasGone ==
  (Deleted /\ parsed = "ok") =>
    \A k \in 1..Len(hosts) : hosts[k].host # lastDelete[1].host

\* witness of C2: two Host lines listed the target, one of them is not the
\* first Host line, and the re-parsed list still has an entry
C2_Witness ==
  /\ Deleted /\ parsed = "ok"
  /\ Cardinality(HitLines) >= 2
  /\ \E i \in HitLines : \E j \in 1..(i - 1) : IsHostLine(InLines[j])
  /\ hosts # <<>>

\* C3: deleting a name that no Host line lists rewrites the file to the
\* same text, line for line, and so to the same parsed entries; the call
\* fails only when the file cannot be read.
C3_AbsentNameNoOp ==
  lastDelete # <<>> =>
    LET ls == InLines
    IN HitLinesOf(ls, lastDelete[1].host) = {} =>
         /\ lastDelete[1].err = ~canRead
         /\ content = lastDelete[1].input
         /\ Split(content) = ls
         /\ (parsed = "ok" => hosts = parseText(lastDelete[1].input))

\* witness of C3: a successful deletion of an unlisted name from a file that
\* has Host lines and a blank line, parsed again
C3_Witness ==
  /\ Deleted /\ HitLines = {} /\ parsed = "ok" /\ hosts # <<>>
  /\ \E i \in 1..Len(InLines) : InLines[i] = <<>>
  /\ Len(InLines) >= 3

\* C4: deleting the same name again from the output of a deletion gives the
\* same text.
C4_Idempotent ==
  Deleted => deleteText(content, lastDelete[1].host) = content

\* witness of C4: the first deletion did remove lines and left some
C4_Witness ==
  /\ Deleted /\ HitLines # {}
  /\ content # lastDelete[1].input /\ content # <<>>

\* C5. A line i is in a matched block when a Host line j <= i lists the
\* target and every line after j up to i is neither a Host line nor a
\* non-empty line that starts without a space or tab.
InMatchedBlock(ls, i, n) ==
  \E j \in 1..i :
    /\ Lists(ls[j], n)
    /\ \A k \in (j + 1)..i :
         /\ ~IsHostLine(ls[k])
         /\ (ls[k] = <<>> \/ ls[k][1] \in {" ", "\t"})

KeptIndices(ls, n) == {i \in 1..Len(ls) : ~InMatchedBlock(ls, i, n)}

RECURSIVE Pick(_, _, _)
Pick(ls, i, keep) ==
  IF i > Len(ls) THEN <<>>
  ELSE (IF i \in keep THEN <<ls[i]>> ELSE <<>>) \o Pick(ls, i + 1, keep)

\* C5: the rewritten line sequence is the input line sequence without the
\* lines of the matched blocks: the lines outside them are all there, once,
\* unmodified and in their order, and nothing else is.
C5_OnlyMatchedBlocksRemoved ==
  Deleted =>
    LET ls == InLines
        kept == Pick(ls, 1, KeptIndices(ls, lastDelete[1].host))
    IN /\ deleteBlock(ls, lastDelete[1].host) = kept
       /\ content = Join(kept)

\* witness of C5: a matched block with a line under its Host line was
\* removed while a later non-empty line passed through
C5_Witness ==
  /\ Deleted
  /\ \E i \in 1..Len(InLines) :
       /\ ~IsHostLine(InLines[i])
       /\ InMatchedBlock(InLines, i, lastDelete[1].host)
  /\ \E i \in KeptIndices(InLines, lastDelete[1].host) :
       InLines[i] # <<>> /\ i > 1

\* ----------------------------------------------------------- parsing claims
Lines == ScanLines(content)
Occ == Occurrences(Lines)

\* the lines of the block that the parser attaches to the Host line at i:
\* the lines after i up to the next Host line
BlockEnd(ls, i) ==
  IF \E j \in (i + 1)..Len(ls) : IsHostLine(ls[j])
  THEN (CHOOSE j \in (i + 1)..Len(ls) :
          IsHostLine(ls[j]) /\ \A k \in (i + 1)..(j - 1) : ~IsHostLine(ls[k])) - 1
  ELSE Len(ls)

\* the values of the directive kw ("hostname " or "user ") in the lines
\* i..hi, in order
RECURSIVE ValuesFrom(_, _, _, _)
ValuesFrom(ls, i, hi, kw) ==
  IF i > hi THEN <<>>
  ELSE (IF HasPrefix(ToLower(TrimSpace(ls[i])), kw)
        THEN <<Fields(ls[i])[2]>> ELSE <<>>) \o ValuesFrom(ls, i + 1, hi, kw)

HostnameValues(ls, i) == ValuesFrom(ls, i + 1, BlockEnd(ls, i), kwHostname)
UserValues(ls, i) == ValuesFrom(ls, i + 1, BlockEnd(ls, i), kwUser)

\* C6: the parsed entries are, name by name and in order, the aliases of
\* all Host lines that contain none of * ? [ ] !, one entry per alias
\* occurrence, and the entries of one Host line all have the same hint.
C6_OrderPreservingWildcardFiltering ==
  parsed = "ok" =>
    LET occ == Occ
    IN /\ NamesOf(hosts) = AliasSeq(occ)
       /\ \A k, l \in 1..Len(hosts) :
            (k <= Len(occ) /\ l <= Len(occ) /\ occ[k].line = occ[l].line)
              => hosts[k].desc = hosts[l].desc

\* witness of C6: a wildcard alias was filtered out of a Host line whose
\* other alias is shown, and a multi-alias Host line with a hint gave two
\* entries
C6_Witness ==
  /\ parsed = "ok"
  /\ \E i \in 1..Len(Lines) :
       /\ IsHostLine(Lines[i])
       /\ \E h \in Range(Aliases(Lines[i])) : IsWildcard(h)
       /\ \E h \in Range(Aliases(Lines[i])) : ~IsWildcard(h)
  /\ \E k, l \in 1..Len(hosts) :
       k < l /\ Occ[k].line = Occ[l].line /\ hosts[k].desc # <<>>

\* C7: an entry's hint is user@hostname for a User value and a Hostname
\* value of its block when the block has both, a Hostname value of its
\* block when it has only Hostname values, and empty when the block has no
\* Hostname value (also when it has a User value).
C7_DisplayHint ==
  parsed = "ok" =>
    LET ls == Lines
        occ == Occurrences(ls)
    IN \A k \in 1..Len(hosts) :
         k <= Len(occ) =>
           LET hs == Range(HostnameValues(ls, occ[k].line))
               us == Range(UserValues(ls, occ[k].line))
           IN /\ (hs # {} /\ us # {}) =>
                    \E h \in hs, u \in us : hosts[k].desc = u \o <<"@">> \o h
              /\ (hs # {} /\ us = {}) => hosts[k].desc \in hs
              /\ hs = {} => hosts[k].desc = <<>>

\* witness of C7: an entry of a block with a Hostname and a User line, and
\* its hint has the "@"
C7_Witness ==
  /\ parsed = "ok"
  /\ \E k \in 1..Len(hosts) :
       /\ HostnameValues(Lines, Occ[k].line) # <<>>
       /\ UserValues(Lines, Occ[k].line) # <<>>
       /\ \E i \in 1..Len(hosts[k].desc) : hosts[k].desc[i] = "@"

\* a further case of C7: an entry of a block with a User line and no
\* Hostname line, with the empty hint
C7_UserOnlyCase ==
  /\ parsed = "ok"
  /\ \E k \in 1..Len(hosts) :
       /\ UserValues(Lines, Occ[k].line) # <<>>
       /\ HostnameValues(Lines, Occ[k].line) = <<>>
       /\ hosts[k].desc = <<>>

\* C8 (as stated): when the block of an entry has several Hostname lines (or
\* several User lines), the hint uses the value of the first of them.
C8_FirstOccurrenceWins ==
  parsed = "ok" =>
    LET ls == Lines
        occ == Occurrences(ls)
    IN \A k \in 1..Len(hosts) :
         k <= Len(occ) =>
           LET hs == HostnameValues(ls, occ[k].line)
               us == UserValues(ls, occ[k].line)
           IN (Len(hs) >= 2 \/ Len(us) >= 2) =>
                hosts[k].desc = descOf(IF hs = <<>> THEN <<>> ELSE hs[1],
                                       IF us = <<>> THEN <<>> ELSE us[1])

\* ls has Host lines, and every name they list is a wildcard pattern
OnlyWildcards(ls) ==
  /\ \E i \in 1..Len(ls) : IsHostLine(ls[i])
  /\ \A i \in 1..Len(ls) :
       IsHostLine(ls[i]) => \A h \in Range(Aliases(ls[i])) : IsWildcard(h)

\* C9: parsing an empty file, or a file whose Host lines list only wildcard
\* patterns, gives no entry and no error.
C9_EmptyAndWildcardOnly ==
  (parsed # "no" /\ canRead /\ (content = <<>> \/ OnlyWildcards(Split(content))))
    => (parsed = "ok" /\ hosts = <<>>)

\* witness of C9: a file with a wildcard-only Host line and a Hostname under
\* it was parsed
C9_Witness ==
  /\ parsed = "ok" /\ OnlyWildcards(Split(content))
  /\ \E i \in 1..Len(Lines) : HostnameValues(Lines, i) # <<>>

\* ==================================================== claims: the session
\* C10: shouldSSH is false at the start and changes only from false to true,
\* in the step that handles a successful loginResultMsg on the spinner
\* screen, and that step ends the program's loop; a loop that ends on the
\* list screen (the quit keys) ends with shouldSSH false.
C10_ShouldSSHOnlyOnSuccess ==
  /\ shouldSSH = FALSE
  /\ [][/\ (shouldSSH' # shouldSSH) =>
             /\ ~shouldSSH /\ shouldSSH'
             /\ pc = "tui" /\ screen = "spinnerScreen"
             /\ inbox # <<>> /\ Head(inbox).success /\ inbox' = Tail(inbox)
             /\ pc' = "post"
        /\ (pc = "tui" /\ pc' = "post" /\ screen = "listScreen") => ~shouldSSH'
       ]_vars

\* witness of C10: the loop has ended on the spinner screen with the flag
\* set, after a probe that was started with a typed password
C10_Witness ==
  /\ pc = "post" /\ shouldSSH /\ screen = "spinnerScreen"
  /\ inbox = <<>> /\ password # <<>>

\* ---------------------------------------------- vocabulary of the steps
\* the program handles the key k: a KeyPress step with that key
KeyStep(k) ==
  /\ pc = "tui"
  /\ \E writeOK \in BOOLEAN : Update(KeyMsg(k), writeOK)
  /\ UNCHANGED <<canRead, hasSshpass, userOK, lastInfo, hosts, parsed, exitCode, inbox, launched>>

\* the program handles the loginResultMsg at the head of its queue
ResultStep ==
  /\ pc = "tui" /\ inbox # <<>>
  /\ Update(Head(inbox), TRUE)
  /\ inbox' = Tail(inbox)

\* C11 (as stated): when the program has ended after a loop that ended with
\* shouldSSH set, main has launched the interactive ssh session, once,
\* whatever the password of the successful probe was.
C11_LaunchesWheneverFlagSet ==
  (pc = "exit" /\ shouldSSH) => Len(launched) = 1

\* the case of C11 that the code does serve: a loop that ended with shouldSSH
\* set after a probe with a non-empty password is followed by one launch
C11_NonEmptyPasswordCase ==
  /\ pc = "exit" /\ shouldSSH /\ password # <<>>
  /\ Len(launched) = 1

\* C12: every interactive ssh session that main launches has the host and
\* the password of the last tryLogin command, the one whose successful
\* result ended the loop; there is at most one such session.
C12_LaunchUsesProbeArguments ==
  /\ Len(launched) <= 1
  /\ \A i \in 1..Len(launched) :
       /\ lastProbe # <<>>
       /\ launched[i].host = lastProbe[1].host
       /\ launched[i].password = lastProbe[1].password
       /\ shouldSSH /\ pc = "exit"

\* witness of C12: a session was launched for an entry that is not the first
\* of the list, after the file had been rewritten by a deletion
C12_Witness ==
  /\ launched # <<>>
  /\ lastDelete # <<>>
  /\ items # <<>> /\ launched[1].host # items[1].host
  /\ launched[1].password # <<>>

\* C13: at most one login probe is in flight. A tryLogin command is running
\* or its result is waiting only on the spinner screen, and never two of
\* them; a command is started only by enter on the password screen, when
\* none is running and no result waits; a running command ends by
\* delivering one result; and a result is handled on the spinner screen.
C13_OneProbeInFlight ==
  /\ [](/\ Len(probes) + Len(inbox) <= 1
        /\ (probes # <<>> \/ inbox # <<>>) => (screen = "spinnerScreen" /\ pc = "tui"))
  /\ [][/\ (Len(probes') > Len(probes)) =>
             /\ KeyStep("enter") /\ screen = "passwordScreen"
             /\ probes = <<>> /\ inbox = <<>>
             /\ probes' = <<tryLogin(selectedHost, pwInput)>>
        /\ (Len(probes') < Len(probes)) =>
             /\ Len(inbox') = Len(inbox) + 1
             /\ probes' = Tail(probes)
        /\ (inbox' # inbox /\ Len(inbox') <= Len(inbox)) =>
             /\ ResultStep /\ screen = "spinnerScreen"
       ]_vars

\* witness of C13: the result of a probe that failed to start is waiting on
\* the spinner screen, and no command is running
C13_Witness ==
  /\ probes = <<>> /\ inbox # <<>>
  /\ Head(inbox).err = "not started"
  /\ screen = "spinnerScreen" /\ pc = "tui"
  /\ password # <<>>

\* C14: handling a failed loginResultMsg on the spinner screen, whatever
\* its err, shows the password screen with errMsg the one message of
\* main.go:233 and the input empty, keeps selectedHost and does not end the
\* loop.
C14_FailedProbeBackToPassword ==
  [][(ResultStep /\ screen = "spinnerScreen" /\ ~Head(inbox).success) =>
       /\ screen' = "passwordScreen"
       /\ errMsg' = litLoginFailed
       /\ pwInput' = <<>>
       /\ selectedHost' = selectedHost
       /\ pc' = "tui" /\ shouldSSH' = shouldSSH
    ]_vars

\* witness of C14: back on the password screen after a failed probe with a
\* typed password: the message is shown and the input is empty
C14_Witness ==
  /\ pc = "tui" /\ screen = "passwordScreen"
  /\ errMsg = litLoginFailed /\ pwInput = <<>>
  /\ password # <<>> /\ selectedHost # <<>>

\* C15 (as stated): the password input is empty whenever the session is not
\* on the password screen: esc and enter there leave it empty.
C15_InputEmptyOutsidePasswordScreen ==
  screen # "passwordScreen" => pwInput = <<>>

\* C16: enter on the list screen with a selected item shows the password
\* screen with selectedHost the item's host, the input and errMsg empty,
\* starts no tryLogin command and does not end the loop.
C16_SelectConfirm ==
  (pc = "tui" /\ screen = "listScreen" /\ SelectedOK) =>
    /\ ENABLED KeyStep("enter")
    /\ ~ENABLED (/\ KeyStep("enter")
                 /\ ~(/\ screen' = "passwordScreen"
                      /\ selectedHost' = items[index + 1].host
                      /\ pwInput' = <<>> /\ errMsg' = <<>>
                      /\ probes' = probes /\ inbox' = inbox /\ pc' = pc))

\* witness of C16: on the list screen with a selected item that is not the
\* first one, with text left in the password input by an earlier visit of
\* the password screen
C16_Witness ==
  /\ pc = "tui" /\ screen = "listScreen" /\ SelectedOK
  /\ index > 0 /\ pwInput # <<>>
  /\ selectedHost # <<>> /\ selectedHost # items[index + 1].host

\* C17: esc on the password screen shows the list screen with errMsg empty,
\* starts no tryLogin command, and leaves the items of the list, the file
\* and the loop as they are.
C17_CancelBackToList ==
  (pc = "tui" /\ screen = "passwordScreen") =>
    /\ ENABLED KeyStep("esc")
    /\ ~ENABLED (/\ KeyStep("esc")
                 /\ ~(/\ screen' = "listScreen"
                      /\ errMsg' = <<>>
                      /\ probes' = probes /\ inbox' = inbox
                      /\ items' = items /\ content' = content /\ pc' = pc))

\* witness of C17: on the password screen with the message of a failed
\* login, where esc has an error to clear
C17_Witness ==
  /\ pc = "tui" /\ screen = "passwordScreen"
  /\ errMsg # <<>> /\ items # <<>>

\* C18: the delete key ("delete" or "x") on the list screen with a selected
\* item stays on the list screen and does not end the loop. If
\* deleteHostFromConfig succeeds, the file is rewritten and the items are
\* those of parsing the rewritten file, none of them with the deleted host;
\* if it fails, screen, items, selectedHost, errMsg and the file are
\* unchanged.
C18_DeleteRequest ==
  [][\A k \in {"delete", "x"} :
       (pc = "tui" /\ screen = "listScreen" /\ SelectedOK /\ KeyStep(k)) =>
         /\ screen' = "listScreen" /\ pc' = "tui"
         /\ lastDelete' # <<>> /\ lastDelete'[1].host = Selected.host
         /\ IF lastDelete'[1].err
            THEN UNCHANGED <<screen, items, selectedHost, errMsg, content>>
            ELSE /\ content' = deleteText(content, Selected.host)
                 /\ items' = parseSSHConfig(canRead', content').items
                 /\ \A i \in 1..Len(items') : items'[i].host # Selected.host
    ]_vars

\* witness of C18: on the list screen after a deletion that succeeded, with
\* items left, which are those of the rewritten file
C18_Witness ==
  /\ pc = "tui" /\ screen = "listScreen"
  /\ lastDelete # <<>> /\ ~lastDelete[1].err
  /\ content # lastDelete[1].input
  /\ items # <<>> /\ items = parseSSHConfig(canRead, content).items

\* a further case of C18: on the list screen after a deletion that failed
C18_FailedCase ==
  /\ pc = "tui" /\ screen = "listScreen"
  /\ lastDelete # <<>> /\ lastDelete[1].err
  /\ content = lastDelete[1].input

\* C19 (as stated): on every screen, the key ctrl+c ends the loop and leaves
\* shouldSSH false.
C19_CtrlCQuitsOnEveryScreen ==
  pc = "tui" =>
    ENABLED (KeyStep("ctrl+c") /\ pc' = "post" /\ ~shouldSSH')

\* the case of C19 that the code does serve: on the list screen ctrl+c ends
\* the loop with shouldSSH false
C19_ListScreenCase ==
  (pc = "tui" /\ screen = "listScreen") =>
    /\ ENABLED KeyStep("ctrl+c")
    /\ ~ENABLED (KeyStep("ctrl+c") /\ ~(pc' = "post" /\ ~shouldSSH'))

InfoLines == Split(IF lastDelete # <<>> THEN lastDelete[1].input ELSE content)
Info == lastInfo[1]
InfoFound == lastInfo # <<>> /\ lastInfo[1].found

\* line k ends the block before it: a Host line, or a non-empty line that
\* starts without a space or tab
EndsBlock(ls, k) == IsHostLine(ls[k]) \/ (ls[k] # <<>> /\ ls[k][1] \notin {" ", "\t"})

\* the index of the last line of the block of the Host line i
ExtentEnd(ls, i) ==
  CHOOSE j \in i..Len(ls) :
    /\ \A k \in (i + 1)..j : ~EndsBlock(ls, k)
    /\ j = Len(ls) \/ EndsBlock(ls, j + 1)

BlockAt(ls, i) == SubSeq(ls, i, ExtentEnd(ls, i))

\* the ProxyJump value of the block of the Host line i: the first token
\* after the directive of its first ProxyJump line, <<>> without one
ProxyJumpOf(ls, i) ==
  LET vs == ValuesFrom(ls, i + 1, ExtentEnd(ls, i), kwProxyJump)
  IN IF vs = <<>> THEN <<>> ELSE vs[1]

\* the blocks of the Host lines from i on whose ProxyJump value is n
RECURSIVE DependentsFrom(_, _, _)
DependentsFrom(ls, i, n) ==
  IF i > Len(ls) THEN <<>>
  ELSE (IF IsHostLine(ls[i]) /\ ProxyJumpOf(ls, i) = n
        THEN <<[hostName |-> Aliases(ls[i])[1], lines |-> BlockAt(ls, i)]>>
        ELSE <<>>) \o DependentsFrom(ls, i + 1, n)

\* C21: the blocks that getHostInfo finds to jump through hostName are the
\* blocks of the file whose ProxyJump value (first token of the first
\* ProxyJump line) is hostName, all of them and no other, in file order.
C21_DependentsExact ==
  InfoFound => Info.jumping = DependentsFrom(InfoLines, 1, Info.hostName)

\* witness of C21: two blocks of different hosts jump through the host, and
\* the file has a block that does not
C21_Witness ==
  /\ InfoFound
  /\ Len(Info.jumping) = 2
  /\ Info.jumping[1].hostName # Info.jumping[2].hostName
  /\ \E i \in 1..Len(InfoLines) :
       IsHostLine(InfoLines[i]) /\ ProxyJumpOf(InfoLines, i) # Info.hostName

\* the first ProxyJump value in the lines of a block that was returned
FirstProxyJump(blockLines) ==
  LET vs == ValuesFrom(blockLines, 2, Len(blockLines), kwProxyJump)
  IN IF vs = <<>> THEN <<>> ELSE vs[1]

litJumpHost == <<"J", "u", "m", "p", " ", "H", "o", "s", "t", ":", " ">>

\* C22: the jump host that getHostInfo reports for a host is resolved by one
\* hop. With B the ProxyJump value of the host's block: a jump host is
\* reported exactly when a Host line lists B, it is named B, its block
\* starts with a Host line that lists B, and the text starts with its
\* name, also when B's block has a ProxyJump value C of its own.
C22_OneHop ==
  InfoFound =>
    LET B == FirstProxyJump(Info.block[1].lines)
    IN /\ (Info.jump # <<>>) <=>
            (B # <<>> /\ \E i \in 1..Len(InfoLines) : Lists(InfoLines[i], B))
       /\ Info.jump # <<>> =>
            /\ Info.jump[1].hostName = B
            /\ Lists(Info.jump[1].lines[1], B)
            /\ HasPrefix(Info.text, litJumpHost \o B \o <<NL>>)

\* witness of C22: a chain of three different hosts: the host jumps
\* through B, B's block jumps through C, and C has a block in the file
C22_Witness ==
  /\ InfoFound /\ Info.jump # <<>>
  /\ LET B == FirstProxyJump(Info.block[1].lines)
         C == FirstProxyJump(Info.jump[1].lines)
     IN /\ C # <<>> /\ C # B /\ C # Info.hostName /\ B # Info.hostName
        /\ \E i \in 1..Len(InfoLines) : Lists(InfoLines[i], C)
        /\ Info.jump[1].hostName = B

litNoConfig == <<"H", "o", "s", "t", ":", " ">>
litNoConfigFound == <<NL, NL, "N", "o", " ", "c", "o", "n", "f", "i", "g", " ", "f", "o", "u", "n", "d">>

\* C23: getHostBlock returns a block exactly when a Host line of the file
\* has the name among its whitespace-separated aliases, compared exactly
\* (no case folding, no pattern matching); without one the result is nil
\* and getHostInfo returns its "No config found" text. The Host lines that
\* a deletion of the name removes are exactly those that list it in this
\* sense.
C23_ExactAliasMatch ==
  (lastInfo # <<>> /\ canRead) =>
    LET n == Info.hostName
        ls == InfoLines
    IN /\ Info.found <=> (\E i \in 1..Len(ls) : Lists(ls[i], n))
       /\ Info.found => Lists(Info.block[1].lines[1], n)
       /\ ~Info.found => Info.text = litNoConfig \o n \o litNoConfigFound
       /\ Deleted =>
            SelectSeq(deleteBlock(ls, n), IsHostLine)
              = SelectSeq(ls, LAMBDA l : IsHostLine(l) /\ ~Lists(l, n))

\* witness of C23: the name "A" was asked for and then deleted in a file
\* with a Host line that lists "a" and a Host line with the pattern "*":
\* no block, and nothing removed
C23_Witness ==
  /\ lastInfo # <<>> /\ Deleted
  /\ Info.hostName = <<"A">> /\ ~Info.found
  /\ \E i \in 1..Len(InfoLines) : Lists(InfoLines[i], <<"a">>)
  /\ \E i \in 1..Len(InfoLines) : Lists(InfoLines[i], <<"*">>)
  /\ content = lastDelete[1].input

\* a further case of C23: a name that a Host line of two aliases lists as
\* its second alias was found and deleted
C23_FoundCase ==
  /\ InfoFound /\ Deleted
  /\ Len(Aliases(Info.block[1].lines[1])) = 2
  /\ Aliases(Info.block[1].lines[1])[2] = Info.hostName
  /\ content # lastDelete[1].input

\* ==================================================== claims: the session
\* the program ends without having shown the UI
EndsWithoutUI(code) ==
  /\ pc' = "exit" /\ exitCode' = code
  /\ items' = <<>> /\ infoBox' = <<>> /\ launched' = <<>> /\ content' = content

\* C24: the step of main before the UI decides in this order: without
\* sshpass the program ends with status 1, whatever the configuration is;
\* else without the user or with a configuration that cannot be read it
\* ends with status 1; else with a configuration without entries it ends
\* with status 0; in all three cases no UI is shown. Otherwise the UI
\* starts, with the entries of the file, at least one.
C24_StartupChecks ==
  [][pc = "main" =>
       IF ~hasSshpass THEN EndsWithoutUI(1)
       ELSE IF ~userOK \/ ~canRead THEN EndsWithoutUI(1)
       ELSE IF Occurrences(ScanLines(content)) = <<>> THEN EndsWithoutUI(0)
       ELSE /\ pc' = "tui" /\ exitCode' = -1
            /\ items' # <<>>
            /\ NamesOf(items') = AliasSeq(Occurrences(ScanLines(content)))
    ]_vars

\* witness of C24: the program has ended with status 1 for the missing
\* sshpass, with a user and a readable configuration that has entries
C24_Witness ==
  /\ pc = "exit" /\ exitCode = 1 /\ infoBox = <<>>
  /\ ~hasSshpass /\ userOK /\ canRead
  /\ Occurrences(ScanLines(content)) # <<>>

\* further cases of C24: status 0 for a readable configuration without
\* entries that is not empty, and a UI that has started
C24_NoHostsCase ==
  /\ pc = "exit" /\ exitCode = 0 /\ infoBox = <<>>
  /\ hasSshpass /\ userOK /\ canRead /\ content # <<>>

C24_StartedCase ==
  /\ pc = "tui" /\ items # <<>> /\ lastDelete = <<>>

\* C25: no character of the typed password is ever in the configuration
\* file or in the text that View writes to the terminal; and the file is
\* written only by the deletion on the list screen, with the text that
\* deleteHostFromConfig derives from the file and the name of the selected
\* item, so that runs that differ in the typed password only write the same
\* contents.
C25_PasswordNotStored ==
  /\ [](\A r \in PwRunes : r \notin Range(content) /\ r \notin Range(View))
  /\ [][content' # content =>
          /\ pc = "tui" /\ screen = "listScreen" /\ SelectedOK
          /\ KeyStep("delete")
          /\ content' = deleteText(content, items[index + 1].host)
          /\ \A r \in PwRunes : r \notin Range(items[index + 1].host)
       ]_vars

\* witness of C25: on the password screen with a typed character in the
\* input, drawn as one echo character, after a login attempt with that
\* password has failed and the file has been rewritten by a deletion
C25_Witness ==
  /\ pc = "tui" /\ screen = "passwordScreen"
  /\ pwInput # <<>> /\ password # <<>>
  /\ \A i \in 1..Len(pwInput) : pwInput[i] \in PwRunes
  /\ Deleted /\ content # lastDelete[1].input
  /\ Len(pwInputView) = Len(pwInput)

\* a further case of C25: the interactive ssh session was launched with the
\* typed password
C25_LaunchCase ==
  /\ launched # <<>>
  /\ \E i \in 1..Len(launched[1].password) : launched[1].password[i] \in PwRunes

\* C26 (as stated): the lines of the block that getHostBlock returns for a
\* name are one contiguous run of lines of the file: a Host line that lists
\* the name and the lines after it up to the line that ends its block (the
\* next Host line or non-empty line without indentation) or the end of the
\* file, and so with no second Host line.
C26_BlockIsOneContiguousRun ==
  InfoFound =>
    \E i \in 1..Len(InfoLines) :
      /\ Lists(InfoLines[i], Info.hostName)
      /\ Info.block[1].lines = BlockAt(InfoLines, i)

\* the case of C26 that the code does serve: a name that exactly one Host
\* line lists
C26_SingleListingCase ==
  (InfoFound /\ Cardinality(HitLinesOf(InfoLines, Info.hostName)) = 1) =>
    \E i \in 1..Len(InfoLines) :
      /\ Lists(InfoLines[i], Info.hostName)
      /\ Info.block[1].lines = BlockAt(InfoLines, i)

\* C27 (as stated): on the list screen, once a deletion has rewritten the
\* file, an info box that has left its initial text is the text of
\* getHostInfo for the selected item on the file as it is now.
C27_InfoBoxFreshAfterDelete ==
  (pc = "tui" /\ screen = "listScreen" /\ Deleted /\ SelectedOK
     /\ infoBox # litHelloWorld) =>
    infoBox = getHostInfo(canRead, content, Selected.host)

\* the case of C27 that the code does serve: a step on the list screen that
\* is neither the enter nor the deletion of a selected item leaves the info
\* box fresh for the item that is then selected
C27_RefreshedByOtherMessages ==
  [][(pc = "tui" /\ screen = "listScreen" /\ pc' = "tui" /\ screen' = "listScreen"
      /\ content' = content /\ lastDelete' = lastDelete /\ index' < Len(items'))
       => infoBox' = getHostInfo(canRead, content, items[index' + 1].host)]_vars

\* the entries of parsing text that come from Host lines not listing n,
\* each as parseSSHConfig emitted it
EntriesOfOtherLines(text, n) ==
  LET ls == ScanLines(text)
      occ == Occurrences(ls)
      keep == {k \in 1..Len(occ) : ~Lists(ls[occ[k].line], n)}
  IN Pick(parseText(text), 1, keep)

\* C28 (as stated): parsing the file a deletion of n wrote gives the entries
\* of parsing the original text without those of the Host lines listing n,
\* in their order and each with its name and its description.
C28_ParseAfterDelete ==
  (Deleted /\ parsed = "ok") =>
    hosts = EntriesOfOtherLines(lastDelete[1].input, lastDelete[1].host)

\* the part of C28 that holds: the names, and their order
C28_NamesAfterDelete ==
  (Deleted /\ parsed = "ok") =>
    NamesOf(hosts) = NamesOf(EntriesOfOtherLines(lastDelete[1].input, lastDelete[1].host))

\* line k is non-empty and starts without a space or tab
Unindented(ls, k) == ls[k] # <<>> /\ ls[k][1] \notin {" ", "\t"}

\* the last line before the next unindented line after the Host line j
RunEnd(ls, j) ==
  CHOOSE e \in j..Len(ls) :
    /\ \A k \in (j + 1)..e : ~Unindented(ls, k)
    /\ e = Len(ls) \/ Unindented(ls, e + 1)

\* C29 (as stated): each Host line that lists the target goes with every
\* line after it up to, not including, the next unindented line; nothing
\* else goes, and that next line is in the output.
C29_RunToNextUnindented ==
  Deleted =>
    LET ls == InLines
        n == lastDelete[1].host
        hits == HitLinesOf(ls, n)
        removed == UNION {j..RunEnd(ls, j) : j \in hits}
        kept == (1..Len(ls)) \ removed
    IN /\ deleteBlock(ls, n) = Pick(ls, 1, kept)
       /\ content = Join(Pick(ls, 1, kept))
       /\ \A j \in hits : RunEnd(ls, j) < Len(ls) => (RunEnd(ls, j) + 1) \in kept

\* C29 (amended): each Host line that lists the target goes with every line
\* after it up to, not including, the next line that is a Host line or is
\* unindented; nothing else goes, and that next line is in the output
\* unless it is itself a Host line that lists the target.
C29_RunToNextBlockStart ==
  Deleted =>
    LET ls == InLines
        n == lastDelete[1].host
        hits == HitLinesOf(ls, n)
        removed == UNION {j..ExtentEnd(ls, j) : j \in hits}
        kept == (1..Len(ls)) \ removed
    IN /\ deleteBlock(ls, n) = Pick(ls, 1, kept)
       /\ content = Join(Pick(ls, 1, kept))
       /\ \A j \in hits :
            ExtentEnd(ls, j) < Len(ls) =>
              ((ExtentEnd(ls, j) + 1) \in kept <=> ~Lists(ls[ExtentEnd(ls, j) + 1], n))

\* witness of C29: a deletion removed a block with a line under its Host
\* line, and the line that ended it, which is in the output, is an indented
\* Host line for another name
C29_Witness ==
  /\ Deleted
  /\ \E j \in HitLines :
       /\ ExtentEnd(InLines, j) > j
       /\ ExtentEnd(InLines, j) < Len(InLines)
       /\ LET t == InLines[ExtentEnd(InLines, j) + 1]
          IN /\ IsHostLine(t) /\ t[1] = " "
             /\ ~Lists(t, lastDelete[1].host)
             /\ \E k \in 1..Len(Split(content)) : Split(content)[k] = t

\* the other case of C29: the line that ended a removed block lists the
\* target too and is gone
C29_TerminatorRemovedCase ==
  /\ Deleted
  /\ \E j \in HitLines :
       /\ ExtentEnd(InLines, j) < Len(InLines)
       /\ Lists(InLines[ExtentEnd(InLines, j) + 1], lastDelete[1].host)
       /\ \A k \in 1..Len(Split(content)) :
            Split(content)[k] # InLines[ExtentEnd(InLines, j) + 1]

\* C30: for a name that exactly one Host line of the file lists, the block
\* getHostBlock returned is a run of consecutive lines of the file, and the
\* file deleteHostFromConfig wrote is the file without that run.
C30_SameExtent ==
  (Deleted /\ lastInfo # <<>>
     /\ Cardinality(HitLinesOf(InLines, Info.hostName)) = 1) =>
    /\ Info.found
    /\ LET ls == InLines
           b == Info.block[1].lines
       IN \E i \in 1..Len(ls) :
            /\ i + Len(b) - 1 <= Len(ls)
            /\ SubSeq(ls, i, i + Len(b) - 1) = b
            /\ deleteBlock(ls, Info.hostName)
                 = SubSeq(ls, 1, i - 1) \o SubSeq(ls, i + Len(b), Len(ls))
            /\ content = Join(SubSeq(ls, 1, i - 1) \o SubSeq(ls, i + Len(b), Len(ls)))

\* witness of C30: the block shown and then deleted has its Host line, a
\* directive and a blank line, and stands between two other blocks
C30_Witness ==
  /\ Deleted /\ InfoFound
  /\ Cardinality(HitLinesOf(InLines, Info.hostName)) = 1
  /\ Len(Info.block[1].lines) = 3
  /\ Info.block[1].lines[3] = <<>>
  /\ \E i \in HitLinesOf(InLines, Info.hostName) : i > 1 /\ i + 3 <= Len(InLines)
  /\ content # <<>>

\* ============================================== claims: rendering and frames
\* the lines of a block that its rendered body is to carry: every line that
\* is not blank and is not a Host line, whatever the case of the keyword
BodyLines(ls) == SelectSeq(ls, LAMBDA l : TrimSpace(l) # <<>> /\ ~IsHostLine(l))

\* each line followed by a newline
RECURSIVE Unlines(_, _)
Unlines(ls, i) == IF i > Len(ls) THEN <<>> ELSE ls[i] \o <<NL>> \o Unlines(ls, i + 1)

\* p is the start of a line of t and the text u stands there
LineStartWith(t, p, u) ==
  /\ p = 1 \/ (p - 1 <= Len(t) /\ t[p - 1] = NL)
  /\ p + Len(u) - 1 <= Len(t)
  /\ SubSeq(t, p, p + Len(u) - 1) = u

litJumpedBy == <<NL, "J", "u", "m", "p", "e", "d", " ", "b", "y", ":", NL>>

\* the body that the text of the last getHostInfo call shows under the
\* heading of the selected host: from the end of the heading to the
\* "Jumped by:" section, or to the end of the text
ShownBody ==
  LET t == Info.text
      heading == litNoConfig \o Info.hostName \o <<NL>> \o litRule \o <<NL>>
      p == CHOOSE q \in 1..Len(t) :
             /\ LineStartWith(t, q, heading)
             /\ \A r \in 1..(q - 1) : ~LineStartWith(t, r, heading)
      from == p + Len(heading)
      ends == {q \in from..Len(t) : LineStartWith(t, q, litJumpedBy)}
      to == IF ends = {} THEN Len(t)
            ELSE (CHOOSE q \in ends : \A r \in ends : q <= r) - 1
  IN SubSeq(t, from, to)

\* C31 (as stated): the body shown for the selected host is the lines of its
\* block without the blank lines and without the Host line, however the
\* keyword is capitalised, each other line as it is in the file and in order.
C31_BodyWithoutHostLine ==
  InfoFound => ShownBody = Unlines(BodyLines(Info.block[1].lines), 1)

\* the case of C31 that the code serves: a block whose Host lines all have
\* the keyword spelled "Host"
C31_KeywordSpelledHostCase ==
  (InfoFound /\ \A i \in 1..Len(Info.block[1].lines) :
                  IsHostLine(Info.block[1].lines[i])
                    => HasPrefix(TrimSpace(Info.block[1].lines[i]), litHost)) =>
    ShownBody = Unlines(BodyLines(Info.block[1].lines), 1)

\* the number of alias occurrences of ls on lines before line i
OccBefore(ls, i) == Cardinality({k \in 1..Len(Occurrences(ls)) : Occurrences(ls)[k].line < i})

\* the entries that parseSSHConfig gives for the block of the Host line i
\* when the file holds that block and nothing else
AloneEntries(ls, i) == parseText(Join(SubSeq(ls, i, BlockEnd(ls, i))))

\* C32: every entry is the entry that its own block gives when it is parsed
\* alone, the lines from its Host line to the line before the next Host
\* line: same name, same hint. No line of another block, of a wildcard
\* block or of a block before it, has a part in it.
C32_BlocksIndependent ==
  parsed = "ok" =>
    LET ls == Lines
        occ == Occurrences(ls)
    IN /\ Len(hosts) = Len(occ)
       /\ \A k \in 1..Len(occ) :
            LET i == occ[k].line
                alone == AloneEntries(ls, i)
                pos == k - OccBefore(ls, i)
            IN pos \in 1..Len(alone) /\ hosts[k] = alone[pos]

\* witness of C32: a block with a Hostname value is followed by a block
\* without any, and the entry of the second block has the empty hint while
\* the entry of the first has one
C32_Witness ==
  /\ parsed = "ok"
  /\ \E k, l \in 1..Len(hosts) :
       /\ k < l /\ Occ[k].line < Occ[l].line
       /\ HostnameValues(Lines, Occ[k].line) # <<>>
       /\ HostnameValues(Lines, Occ[l].line) = <<>>
       /\ hosts[k].desc # <<>> /\ hosts[l].desc = <<>>

\* the wildcard case of C32: a Hostname line under a wildcard-only Host line
\* that follows a shown block, whose entry keeps the empty hint
C32_WildcardCase ==
  /\ parsed = "ok"
  /\ \E i \in 1..Len(Lines) :
       /\ IsHostLine(Lines[i])
       /\ \A h \in Range(Aliases(Lines[i])) : IsWildcard(h)
       /\ HostnameValues(Lines, i) # <<>>
       /\ \E k \in 1..Len(hosts) : Occ[k].line < i /\ hosts[k].desc = <<>>

\* the text has a "Jump Host:" heading
HasJumpHeading(t) == \E p \in 1..Len(t) : LineStartWith(t, p, litJumpHost)

\* C33: getHostInfo called after host B was deleted works on the file as it
\* is then. For B it reports that no configuration was found. For a host A
\* that still has a block whose ProxyJump value is B it reports A's block
\* under A's heading, and no jump host: no "Jump Host:" part, no error.
C33_RecomputedAfterDelete ==
  (Deleted /\ lastInfo # <<>>) =>
    LET A == Info.hostName
        B == lastDelete[1].host
    IN /\ A = B => (~Info.found /\ Info.text = litNoConfig \o B \o litNoConfigFound)
       /\ (Info.found /\ FirstProxyJump(Info.block[1].lines) = B) =>
            /\ Info.jump = <<>>
            /\ ~HasJumpHeading(Info.text)
            /\ HasPrefix(Info.text, litNoConfig \o A \o <<NL>> \o litRule \o <<NL>>)
            /\ ShownBody = Unlines(BodyLines(Info.block[1].lines), 1)

\* witness of C33: before the deletion B had a block, which A jumped
\* through; after it A was asked for, and its block with the ProxyJump B
\* line is reported without a jump host
C33_Witness ==
  /\ Deleted /\ InfoFound
  /\ Info.hostName # lastDelete[1].host
  /\ FirstProxyJump(Info.block[1].lines) = lastDelete[1].host
  /\ HitLines # {}
  /\ Info.jump = <<>>
  /\ Info.block[1].lines = BlockAt(Split(content), 1)

\* the other case of C33: B, which had a block with directives, was asked
\* for after its deletion
C33_DeletedHostCase ==
  /\ Deleted /\ lastInfo # <<>>
  /\ Info.hostName = lastDelete[1].host
  /\ \E j \in HitLines : ExtentEnd(InLines, j) > j
  /\ ~Info.found

\* the session is on the spinner screen and its loop is running
Connecting == pc = "tui" /\ screen = "spinnerScreen"

C35_ErrorOnlyOnPasswordScreen ==
  screen # "passwordScreen" => errMsg = <<>>

\* witness of C35: the list screen after a probe: the probe has failed, the
\* password screen has shown the message, and esc has led back to the list
C35_Witness ==
  /\ pc = "tui" /\ screen = "listScreen"
  /\ lastProbe # <<>>
  /\ errMsg = <<>>

\* the other cases of C35: the message is shown on the password screen, and
\* a probe was started from there
C35_MessageShownCase == pc = "tui" /\ screen = "passwordScreen" /\ errMsg = litLoginFailed

\* the password screen or the spinner screen is shown
AfterSelect == screen \in {"passwordScreen", "spinnerScreen"}

\* C36: on the password screen and on the spinner screen selectedHost is
\* not empty and is the host of the list's selected item, the one that the
\* last enter on the list screen took it from (the list does not change
\* on these screens); no step on these screens changes selectedHost, and a
\* step that changes it is enter on the list screen with a selected item.
C36_SelectedHostStable ==
  /\ [](AfterSelect =>
          /\ selectedHost # <<>>
          /\ SelectedOK
          /\ selectedHost = Selected.host)
  /\ [][AfterSelect => selectedHost' = selectedHost]_vars
  /\ [][(selectedHost' # selectedHost) =>
          /\ screen = "listScreen" /\ SelectedOK
          /\ KeyStep("enter")
          /\ selectedHost' = Selected.host]_vars

\* witness of C36: a probe for the second item of the list is running, in
\* a session in which a deletion came before the selection
C36_Witness ==
  /\ Connecting
  /\ index > 0
  /\ selectedHost = items[index + 1].host
  /\ probes # <<>>
  /\ lastDelete # <<>>

\* C37: once main has built the list, a step that writes the file or
\* changes the items of the list is the handling of the delete key ("delete" or "x") on
\* the list screen with a selected item: no step on the password screen or
\* on the spinner screen, and neither enter nor a quit key on the list
\* screen, changes the file or the items; after the loop nothing does.
C37_OnlyDeleteWrites ==
  [][((pc # "main") /\ (content' # content \/ items' # items \/ lastDelete' # lastDelete)) =>
       /\ pc = "tui" /\ screen = "listScreen" /\ SelectedOK
       /\ KeyStep("delete") \/ KeyStep("x")
       /\ lastDelete' = <<[input |-> content, host |-> Selected.host,
                           err |-> lastDelete'[1].err]>>]_vars

\* witness of C37: a deletion has rewritten the file and shortened the list,
\* and the session has gone on to the spinner screen with both as the
\* deletion left them
C37_Witness ==
  /\ Connecting
  /\ Deleted
  /\ content # lastDelete[1].input
  /\ content = deleteText(lastDelete[1].input, lastDelete[1].host)
  /\ items = parseText(content)
  /\ Len(items) < Len(parseText(lastDelete[1].input))

====
